---- MODULE Spec2Model ----
(***************************************************************************)
(* A model of the CHIP-8 interpreter: the machine state of chip8.rs, one   *)
(* operator per opcode function, the fetch/decode/execute cycle (tick),    *)
(* the timer step (frame), the keypad resolver (keypad_press), program     *)
(* load, and the simulation thread of main.rs that drives them.            *)
(*                                                                         *)
(* Rust aborts the running thread (a panic) on an out-of-bounds index, and *)
(* on integer overflow when the build has overflow checks (the debug       *)
(* profile); without them (the release profile) the integer wraps.  The    *)
(* variable overflow_checks is the build's profile, chosen in Init.        *)
(***************************************************************************)
EXTENDS Integers, Sequences, FiniteSets, TLC

VARIABLES
    chip8,            \* the Chip8 struct
    overflow_checks,  \* the build panics on integer overflow (else it wraps)
    phase,            \* "fresh" (just built), "loaded", "load_failed", "aborted"
    last,             \* what the last call on the machine was and what it returned
    failed,           \* the first error a tick returned (Ok while there is none)
    errs,             \* how many ticks returned an error, counted up to MaxErrs
    shadow,           \* the return addresses of the CALLs not yet returned from
    \* the host (main.rs and gui.rs)
    thread,           \* the simulation thread: "running", "exited", "panicked"
    gui,              \* the GUI thread: "running", "panicked"
    dbg_paused,       \* DebuggerState.paused behind the debugger mutex
    gui_paused,       \* the GUI's own copy, which the checkbox sets
    chan,             \* the DebugInstructions sent and not yet received
    file,             \* the program bytes the simulation thread holds
    last_key_input,   \* the key mask of the simulation thread's previous poll
    keys,             \* InputDriver.keys: the keys down as the GUI last saw them
    sent,             \* the last DebugInstruction the GUI sent, and how it went
    \* the three mutexes of main.rs and the two threads' places between them
    mutex,            \* per mutex: the thread that holds it, and whether poisoned
    sim_at,           \* the simulation thread: its path through the loop and step
    gui_at            \* the GUI thread: its step in ChipGUI::update

\* ---------------------------------------------------------------- constants

MEMORY_SIZE == 4096
REGISTER_COUNT == 16
STACK_SIZE == 16
SCREEN_WIDTH == 64
SCREEN_HEIGHT == 32
REG_V0 == 0
REG_VF == 15
MEMORY_OFFSET == 512
INSTRUCTION_SIZE == 2

\* the widths of the Rust integer types
U8 == 256
U16 == 65536

\* ---------------------------------------------------------------- bit helpers

RECURSIVE BitAnd(_, _)
BitAnd(a, b) ==
    IF a = 0 \/ b = 0 THEN 0
    ELSE (a % 2) * (b % 2) + 2 * BitAnd(a \div 2, b \div 2)

RECURSIVE BitOr(_, _)
BitOr(a, b) ==
    IF a = 0 THEN b
    ELSE IF b = 0 THEN a
    ELSE (IF a % 2 = 1 \/ b % 2 = 1 THEN 1 ELSE 0) + 2 * BitOr(a \div 2, b \div 2)

RECURSIVE BitXor(_, _)
BitXor(a, b) ==
    IF a = 0 THEN b
    ELSE IF b = 0 THEN a
    ELSE ((a + b) % 2) + 2 * BitXor(a \div 2, b \div 2)

RECURSIVE Pow2(_)
Pow2(n) == IF n = 0 THEN 1 ELSE 2 * Pow2(n - 1)

\* 1 << n on a u16: a shift amount of 16 or more is an overflow (a panic with
\* overflow checks; without them the amount is masked to its low 4 bits).
\* The value is 0 when the shifted bit leaves the 16 bits.
Shl16(n) == Pow2(n % 16)

Min(a, b) == IF a < b THEN a ELSE b

\* ---------------------------------------------------------------- results

Ok == [kind |-> "Ok", a |-> 0, b |-> 0, why |-> ""]
BadOperationError(b1, b2) ==
    [kind |-> "BadOperationError", a |-> b1, b |-> b2, why |-> ""]
EmptyStackError == [kind |-> "EmptyStackError", a |-> 0, b |-> 0, why |-> ""]
FullStackError == [kind |-> "FullStackError", a |-> 0, b |-> 0, why |-> ""]
ProgramCounterError(pc) ==
    [kind |-> "ProgramCounterError", a |-> pc, b |-> 0, why |-> ""]
MemoryOverflowError == [kind |-> "MemoryOverflowError", a |-> 0, b |-> 0, why |-> ""]
\* the thread aborted inside the call: why is what the panic is about
Panic(why) == [kind |-> "panic", a |-> 0, b |-> 0, why |-> why]

ErrorKinds ==
    {"BadOperationError", "EmptyStackError", "FullStackError", "ProgramCounterError"}

\* ProgramCounterControl
CtlNext == [kind |-> "Next", addr |-> 0]
CtlSkip == [kind |-> "Skip", addr |-> 0]
CtlJump(addr) == [kind |-> "Jump", addr |-> addr]

\* What an opcode function hands back: the machine as it leaves it, the control
\* directive, the result (Ok, an error, or a panic), the memory addresses it
\* indexed memory with and the stack indices it indexed the stack with.
Done(c, ctl) == [c |-> c, ctl |-> ctl, res |-> Ok, acc |-> {}, sacc |-> {}]
DoneAcc(c, ctl, acc) == [c |-> c, ctl |-> ctl, res |-> Ok, acc |-> acc, sacc |-> {}]
Fail(c, res, acc) == [c |-> c, ctl |-> CtlNext, res |-> res, acc |-> acc, sacc |-> {}]

\* ---------------------------------------------------------------- Chip8::new

\* the font table, 5 bytes per hex digit
HEXES_FLAT ==
    << 240, 144, 144, 144, 240,    32,  96,  32,  32, 112,
       240,  16, 240, 128, 240,   240,  16, 240,  16, 240,
       144, 144, 240,  16,  16,   240, 128, 240,  16, 240,
       240, 128, 240, 144, 240,   240,  16,  32,  64,  64,
       240, 144, 240, 144, 240,   240, 144, 240,  16, 240,
       240, 144, 240, 144, 144,   224, 144, 224, 144, 224,
       240, 128, 128, 128, 240,   224, 144, 144, 144, 224,
       240, 128, 240, 128, 240,   240, 128, 240, 128, 128 >>

Chip8New ==
    [ memory |-> [a \in 0..(MEMORY_SIZE - 1) |->
                     IF a < Len(HEXES_FLAT) THEN HEXES_FLAT[a + 1] ELSE 0],
      registers |-> [r \in 0..(REGISTER_COUNT - 1) |-> 0],
      stack |-> [s \in 0..(STACK_SIZE - 1) |-> 0],
      frame_buffer |-> [i \in 0..((SCREEN_WIDTH * SCREEN_HEIGHT) \div 8 - 1) |-> 0],
      sp |-> 0,
      ir |-> 0,
      dt |-> 0,
      st |-> 0,
      pc |-> MEMORY_OFFSET,
      rng |-> 0,
      keypad_waiting |-> FALSE,
      keypad_reg |-> 0,
      display_changed |-> FALSE,
      sound_playing |-> FALSE ]

\* ---------------------------------------------------------------- Chip8::load

\* The loop writes byte i at MEMORY_OFFSET + i and returns the error at the
\* first address that is out of memory: the bytes before it are written.
load(c, bytes) ==
    LET fit == Min(Len(bytes), MEMORY_SIZE - MEMORY_OFFSET)
    IN  [ c |-> [c EXCEPT !.memory =
                    [a \in 0..(MEMORY_SIZE - 1) |->
                        IF a >= MEMORY_OFFSET /\ a < MEMORY_OFFSET + fit
                        THEN bytes[a - MEMORY_OFFSET + 1]
                        ELSE c.memory[a]]],
          res |-> IF Len(bytes) > MEMORY_SIZE - MEMORY_OFFSET
                  THEN MemoryOverflowError ELSE Ok ]

\* ---------------------------------------------------------------- the stack

\* Pop from top of stack: [c, val, res, sacc]
stack_pop(c) ==
    IF c.sp = 255
    THEN [c |-> c, val |-> 0, res |-> EmptyStackError, sacc |-> {}]
    ELSE IF c.sp >= STACK_SIZE
    THEN [c |-> c, val |-> 0, res |-> Panic("stack index"), sacc |-> {c.sp}]
    ELSE IF c.sp = 0
    THEN \* self.sp -= 1 on a u8 that is 0
         IF overflow_checks
         THEN [c |-> c, val |-> c.stack[c.sp], res |-> Panic("sp underflow"),
               sacc |-> {c.sp}]
         ELSE [c |-> [c EXCEPT !.sp = U8 - 1], val |-> c.stack[c.sp], res |-> Ok,
               sacc |-> {c.sp}]
    ELSE [c |-> [c EXCEPT !.sp = c.sp - 1], val |-> c.stack[c.sp], res |-> Ok,
          sacc |-> {c.sp}]

\* Push to top of stack: [c, res, sacc]
stack_push(c, val) ==
    IF c.sp = 255
    THEN [c |-> c, res |-> FullStackError, sacc |-> {}]
    ELSE LET sp1 == c.sp + 1
         IN  IF sp1 >= STACK_SIZE
             THEN [c |-> [c EXCEPT !.sp = sp1], res |-> Panic("stack index"),
                   sacc |-> {sp1}]
             ELSE [c |-> [c EXCEPT !.sp = sp1, !.stack[sp1] = val], res |-> Ok,
                   sacc |-> {sp1}]

\* ---------------------------------------------------------------- opcodes

\* op_cls that leaves the last byte of the frame buffer as it was
op_cls_short(c) ==
    Done([c EXCEPT !.frame_buffer =
             [i \in DOMAIN c.frame_buffer |->
                 IF i = (SCREEN_WIDTH * SCREEN_HEIGHT) \div 8 - 1
                 THEN c.frame_buffer[i] ELSE 0]], CtlNext)

\* Clear display
op_cls(c) ==
    Done([c EXCEPT !.frame_buffer = [i \in DOMAIN c.frame_buffer |-> 0]], CtlNext)

\* Return from subroutine
op_ret(c) ==
    LET p == stack_pop(c)
    IN  [c |-> p.c, ctl |-> CtlJump(p.val), res |-> p.res, acc |-> {}, sacc |-> p.sacc]

\* Jump
op_jp(c, addr) == Done(c, CtlJump(addr))

\* Call subroutine
op_call(c, addr) ==
    LET p == stack_push(c, c.pc + INSTRUCTION_SIZE)
    IN  [c |-> p.c, ctl |-> CtlJump(addr), res |-> p.res, acc |-> {}, sacc |-> p.sacc]

\* Skip if equal
op_se(c, reg, val) ==
    Done(c, IF c.registers[reg] = val THEN CtlSkip ELSE CtlNext)

\* Skip if not equal
op_sne(c, reg, val) ==
    Done(c, IF c.registers[reg] # val THEN CtlSkip ELSE CtlNext)

\* Skip if equal, compare registers
op_se_reg(c, reg1, reg2) ==
    Done(c, IF c.registers[reg1] = c.registers[reg2] THEN CtlSkip ELSE CtlNext)

\* Load value into register
op_ld(c, reg, val) == Done([c EXCEPT !.registers[reg] = val], CtlNext)

\* op_add that reports the carry in VF
op_add_carry(c, reg, val) ==
    LET sum == c.registers[reg] + val
    IN  Done([c EXCEPT !.registers[reg] = sum % U8,
                       !.registers[REG_VF] = IF sum >= U8 THEN 1 ELSE 0], CtlNext)

\* Add value to register, no carry flag
op_add(c, reg, val) ==
    Done([c EXCEPT !.registers[reg] = (c.registers[reg] + val) % U8], CtlNext)

\* Load register 2 into register 1
op_ld_reg(c, reg1, reg2) ==
    Done([c EXCEPT !.registers[reg1] = c.registers[reg2]], CtlNext)

op_or(c, reg1, reg2) ==
    Done([c EXCEPT !.registers[reg1] = BitOr(c.registers[reg1], c.registers[reg2])],
         CtlNext)

op_and(c, reg1, reg2) ==
    Done([c EXCEPT !.registers[reg1] = BitAnd(c.registers[reg1], c.registers[reg2])],
         CtlNext)

op_xor(c, reg1, reg2) ==
    Done([c EXCEPT !.registers[reg1] = BitXor(c.registers[reg1], c.registers[reg2])],
         CtlNext)

\* op_add_reg that writes the flag first and the sum last
op_add_reg_sum_last(c, reg1, reg2) ==
    LET val1 == c.registers[reg1]
        val2 == c.registers[reg2]
    IN  Done([c EXCEPT !.registers[REG_VF] = IF val1 + val2 >= U8 THEN 1 ELSE 0,
                       !.registers[reg1] = (val1 + val2) % U8],
             CtlNext)

\* Add registers, setting VF if overflow
op_add_reg(c, reg1, reg2) ==
    LET val1 == c.registers[reg1]
        val2 == c.registers[reg2]
    IN  Done([c EXCEPT !.registers[reg1] = (val1 + val2) % U8,
                       !.registers[REG_VF] = IF val1 + val2 >= U8 THEN 1 ELSE 0],
             CtlNext)

\* op_sub_reg that sets VF only when the minuend is strictly greater
op_sub_reg_strict(c, reg1, reg2) ==
    LET val1 == c.registers[reg1]
        val2 == c.registers[reg2]
    IN  Done([c EXCEPT !.registers[reg1] = (val1 - val2 + U8) % U8,
                       !.registers[REG_VF] = IF val1 > val2 THEN 1 ELSE 0],
             CtlNext)

\* Subtract registers, setting VF if NO underflow
op_sub_reg(c, reg1, reg2) ==
    LET val1 == c.registers[reg1]
        val2 == c.registers[reg2]
    IN  Done([c EXCEPT !.registers[reg1] = (val1 - val2 + U8) % U8,
                       !.registers[REG_VF] = IF val1 < val2 THEN 0 ELSE 1],
             CtlNext)

\* Shift right, setting VF if LSB == 1
op_shr(c, reg) ==
    LET val == c.registers[reg]
    IN  Done([c EXCEPT !.registers[reg] = val \div 2,
                       !.registers[REG_VF] = val % 2],
             CtlNext)

\* Subtract registers (but reg2-reg1 this time), setting VF if NO underflow
op_subn_reg(c, reg1, reg2) ==
    LET val1 == c.registers[reg1]
        val2 == c.registers[reg2]
    IN  Done([c EXCEPT !.registers[reg1] = (val2 - val1 + U8) % U8,
                       !.registers[REG_VF] = IF val2 < val1 THEN 0 ELSE 1],
             CtlNext)

\* op_shl that sets VF from the low bit
op_shl_low_bit(c, reg) ==
    LET val == c.registers[reg]
    IN  Done([c EXCEPT !.registers[reg] = (val * 2) % U8,
                       !.registers[REG_VF] = val % 2],
             CtlNext)

\* Shift left, setting VF if MSB == 1
op_shl(c, reg) ==
    LET val == c.registers[reg]
    IN  Done([c EXCEPT !.registers[reg] = (val * 2) % U8,
                       !.registers[REG_VF] = (val \div 128) % 2],
             CtlNext)

\* Skip if not equal, compare registers
op_sne_reg(c, reg1, reg2) ==
    Done(c, IF c.registers[reg1] # c.registers[reg2] THEN CtlSkip ELSE CtlNext)

\* Load into index register
op_ld_i(c, val) == Done([c EXCEPT !.ir = val], CtlNext)

\* Jump to V0 + addr
op_jp_v0(c, addr) == Done(c, CtlJump(c.registers[REG_V0] + addr))

\* op_rnd that stores the random byte without masking it
op_rnd_unmasked(c, reg, val, rnd) ==
    Done([c EXCEPT !.registers[reg] = rnd, !.rng = c.rng + 1], CtlNext)

\* Get random number: rnd is the byte self.rng.next_u32() as u8, and the field
\* rng counts the values the generator has handed out (its position in the
\* stream its seed fixes)
op_rnd(c, reg, val, rnd) ==
    Done([c EXCEPT !.registers[reg] = BitAnd(rnd, val), !.rng = c.rng + 1], CtlNext)

\* The addresses a loop over base, base+1, ..., base+cnt-1 indexes memory with:
\* it stops (the thread panics) at the first one that is out of memory.
Attempt(base, cnt) ==
    {a \in base..(base + cnt - 1) : a <= MEMORY_SIZE \/ a = base}

\* drw_bits that sets the pixels of a sprite row instead of flipping them
RECURSIVE drw_bits_or(_, _, _, _, _)
drw_bits_or(d, memory_byte, xpos, cur_y, bit) ==
    IF bit = 8 THEN d
    ELSE IF BitAnd(memory_byte, Pow2(7 - bit)) > 0
    THEN LET cur_x == (xpos + bit) % SCREEN_WIDTH
             display_byte_index == (cur_y * SCREEN_WIDTH + cur_x) \div 8
             display_byte == d.fb[display_byte_index]
             display_mask == Pow2(7 - (cur_x % 8))
         IN  IF display_byte_index \notin DOMAIN d.fb
             THEN [d EXCEPT !.oob = TRUE]
             ELSE drw_bits_or(
                      [fb |-> [d.fb EXCEPT ![display_byte_index] =
                                  BitOr(display_byte, display_mask)],
                       overlap |-> d.overlap \/ BitAnd(display_byte, display_mask) > 0,
                       oob |-> FALSE],
                      memory_byte, xpos, cur_y, bit + 1)
    ELSE drw_bits_or(d, memory_byte, xpos, cur_y, bit + 1)

\* drw_bits that wraps the column at SCREEN_HEIGHT instead of SCREEN_WIDTH
RECURSIVE drw_bits_wrap32(_, _, _, _, _)
drw_bits_wrap32(d, memory_byte, xpos, cur_y, bit) ==
    IF bit = 8 THEN d
    ELSE IF BitAnd(memory_byte, Pow2(7 - bit)) > 0
    THEN LET cur_x == (xpos + bit) % SCREEN_HEIGHT
             display_byte_index == (cur_y * SCREEN_WIDTH + cur_x) \div 8
             display_byte == d.fb[display_byte_index]
             display_mask == Pow2(7 - (cur_x % 8))
         IN  IF display_byte_index \notin DOMAIN d.fb
             THEN [d EXCEPT !.oob = TRUE]
             ELSE drw_bits_wrap32(
                      [fb |-> [d.fb EXCEPT ![display_byte_index] =
                                  BitXor(display_byte, display_mask)],
                       overlap |-> d.overlap \/ BitAnd(display_byte, display_mask) > 0,
                       oob |-> FALSE],
                      memory_byte, xpos, cur_y, bit + 1)
    ELSE drw_bits_wrap32(d, memory_byte, xpos, cur_y, bit + 1)

\* The inner loop of op_drw over the 8 bits of one sprite byte;
\* d = [fb, overlap, oob] is the frame buffer, the overlap flag so far, and
\* whether a frame buffer index was out of range (the loop stops there).
RECURSIVE drw_bits(_, _, _, _, _)
drw_bits(d, memory_byte, xpos, cur_y, bit) ==
    IF bit = 8 THEN d
    ELSE IF BitAnd(memory_byte, Pow2(7 - bit)) > 0
    THEN LET cur_x == (xpos + bit) % SCREEN_WIDTH
             display_byte_index == (cur_y * SCREEN_WIDTH + cur_x) \div 8
             display_byte == d.fb[display_byte_index]
             display_bit_index == 7 - (cur_x % 8)
             display_mask == Pow2(display_bit_index)
         IN  IF display_byte_index \notin DOMAIN d.fb
             THEN [d EXCEPT !.oob = TRUE]
             ELSE drw_bits(
                      [fb |-> [d.fb EXCEPT ![display_byte_index] =
                                  BitXor(display_byte, display_mask)],
                       overlap |-> d.overlap \/ BitAnd(display_byte, display_mask) > 0,
                       oob |-> FALSE],
                      memory_byte, xpos, cur_y, bit + 1)
    ELSE drw_bits(d, memory_byte, xpos, cur_y, bit + 1)

\* The outer loop of op_drw over the sprite's bytes: [fb, overlap, oob, why],
\* oob with the array whose index was out of range.
RECURSIVE drw_rows(_, _, _, _, _, _)
drw_rows(c, d, xpos, ypos, byte, byte_count) ==
    IF byte = byte_count
    THEN [fb |-> d.fb, overlap |-> d.overlap, oob |-> FALSE, why |-> ""]
    ELSE IF c.ir + byte >= MEMORY_SIZE
    THEN [fb |-> d.fb, overlap |-> d.overlap, oob |-> TRUE, why |-> "memory index"]
    ELSE LET row == drw_bits(d, c.memory[c.ir + byte], xpos,
                             (ypos + byte) % SCREEN_HEIGHT, 0)
         IN  IF row.oob
             THEN [fb |-> row.fb, overlap |-> row.overlap, oob |-> TRUE,
                   why |-> "frame buffer index"]
             ELSE drw_rows(c, row, xpos, ypos, byte + 1, byte_count)

\* op_drw that writes VF only when pixels overlapped
op_drw_keep_vf(c, regx, regy, byte_count) ==
    LET xpos == c.registers[regx]
        ypos == c.registers[regy]
        r == drw_rows(c, [fb |-> c.frame_buffer, overlap |-> FALSE, oob |-> FALSE],
                      xpos, ypos, 0, byte_count)
        acc == Attempt(c.ir, byte_count)
    IN  IF r.oob
        THEN Fail([c EXCEPT !.frame_buffer = r.fb], Panic(r.why), acc)
        ELSE DoneAcc([c EXCEPT !.frame_buffer = r.fb,
                               !.registers[REG_VF] =
                                   IF r.overlap THEN 1 ELSE c.registers[REG_VF],
                               !.display_changed = TRUE],
                     CtlNext, acc)

\* Draw to screen
op_drw(c, regx, regy, byte_count) ==
    LET xpos == c.registers[regx]
        ypos == c.registers[regy]
        r == drw_rows(c, [fb |-> c.frame_buffer, overlap |-> FALSE, oob |-> FALSE],
                      xpos, ypos, 0, byte_count)
        acc == Attempt(c.ir, byte_count)
    IN  IF r.oob
        THEN Fail([c EXCEPT !.frame_buffer = r.fb], Panic(r.why), acc)
        ELSE DoneAcc([c EXCEPT !.frame_buffer = r.fb,
                               !.registers[REG_VF] = IF r.overlap THEN 1 ELSE 0,
                               !.display_changed = TRUE],
                     CtlNext, acc)

\* op_skp that tests the mask against Vx itself instead of bit Vx
op_skp_value_mask(c, reg, key_input) ==
    LET val == c.registers[reg]
    IN  IF val >= 16 /\ overflow_checks
        THEN Fail(c, Panic("shift overflow"), {})
        ELSE Done(c, IF BitAnd(key_input, val) > 0 THEN CtlSkip ELSE CtlNext)

\* skip if key pressed
op_skp(c, reg, key_input) ==
    LET val == c.registers[reg]
    IN  IF val >= 16 /\ overflow_checks
        THEN Fail(c, Panic("shift overflow"), {})
        ELSE Done(c, IF BitAnd(key_input, Shl16(val)) > 0 THEN CtlSkip ELSE CtlNext)

\* skip if key not pressed
op_sknp(c, reg, key_input) ==
    LET val == c.registers[reg]
    IN  IF val >= 16 /\ overflow_checks
        THEN Fail(c, Panic("shift overflow"), {})
        ELSE Done(c, IF BitAnd(key_input, Shl16(val)) = 0 THEN CtlSkip ELSE CtlNext)

\* load delay timer into reg
op_ld_vx_dt(c, reg) == Done([c EXCEPT !.registers[reg] = c.dt], CtlNext)

\* wait until key press
op_key_wait(c, reg) ==
    Done([c EXCEPT !.keypad_waiting = TRUE, !.keypad_reg = reg], CtlNext)

\* load reg into delay timer
op_ld_dt_vx(c, reg) == Done([c EXCEPT !.dt = c.registers[reg]], CtlNext)

\* op_ld_st_vx that also switches the sound on
op_ld_st_vx_sound(c, reg) ==
    Done([c EXCEPT !.st = c.registers[reg],
                   !.sound_playing = c.registers[reg] > 0], CtlNext)

\* load reg into sound timer
op_ld_st_vx(c, reg) == Done([c EXCEPT !.st = c.registers[reg]], CtlNext)

\* self.ir += Vx on a u16
op_add_i_vx(c, reg) ==
    LET sum == c.ir + c.registers[reg]
    IN  IF sum >= U16 /\ overflow_checks
        THEN Fail(c, Panic("ir overflow"), {})
        ELSE Done([c EXCEPT !.ir = sum % U16], CtlNext)

op_ld_f_vx(c, reg) ==
    LET digit == c.registers[reg]
    IN  Done([c EXCEPT !.ir = BitAnd(digit, 15) * 5], CtlNext)

\* memory with registers-or-digits vals[0..n-1] written at base.. while in memory
WriteRun(memory, base, vals, n) ==
    [a \in DOMAIN memory |->
        IF a >= base /\ a < base + n THEN vals[a - base] ELSE memory[a]]

\* op_ld_b_vx that stores the digits lowest first
op_ld_b_vx_reversed(c, reg) ==
    LET val == c.registers[reg]
        digits == [i \in 0..2 |->
                     IF i = 2 THEN (val \div 100) % 10
                     ELSE IF i = 1 THEN (val \div 10) % 10
                     ELSE val % 10]
        acc == Attempt(c.ir, 3)
        m == WriteRun(c.memory, c.ir, digits, 3)
    IN  IF c.ir + 2 >= MEMORY_SIZE
        THEN Fail([c EXCEPT !.memory = m], Panic("memory index"), acc)
        ELSE DoneAcc([c EXCEPT !.memory = m], CtlNext, acc)

\* Store the decimal digits of Vx at I, I+1, I+2
op_ld_b_vx(c, reg) ==
    LET val == c.registers[reg]
        digits == [i \in 0..2 |->
                     IF i = 0 THEN (val \div 100) % 10
                     ELSE IF i = 1 THEN (val \div 10) % 10
                     ELSE val % 10]
        acc == Attempt(c.ir, 3)
        m == WriteRun(c.memory, c.ir, digits, 3)
    IN  IF c.ir + 2 >= MEMORY_SIZE
        THEN Fail([c EXCEPT !.memory = m], Panic("memory index"), acc)
        ELSE DoneAcc([c EXCEPT !.memory = m], CtlNext, acc)

\* op_ld_i_vx that stops one register short, at V(x-1)
op_ld_i_vx_exclusive(c, reg) ==
    LET acc == Attempt(c.ir, reg + 1)
        m == WriteRun(c.memory, c.ir, c.registers, reg)
    IN  IF c.ir + reg >= MEMORY_SIZE
        THEN Fail([c EXCEPT !.memory = m], Panic("memory index"), acc)
        ELSE DoneAcc([c EXCEPT !.memory = m], CtlNext, acc)

\* Stores registers v0 through vx into memory.
op_ld_i_vx(c, reg) ==
    LET acc == Attempt(c.ir, reg + 1)
        m == WriteRun(c.memory, c.ir, c.registers, reg + 1)
    IN  IF c.ir + reg >= MEMORY_SIZE
        THEN Fail([c EXCEPT !.memory = m], Panic("memory index"), acc)
        ELSE DoneAcc([c EXCEPT !.memory = m], CtlNext, acc)

\* Reads registers v0 through vx from memory.
op_ld_vx_i(c, reg) ==
    LET acc == Attempt(c.ir, reg + 1)
        regs == [r \in DOMAIN c.registers |->
                    IF r <= reg /\ c.ir + r < MEMORY_SIZE
                    THEN c.memory[c.ir + r] ELSE c.registers[r]]
    IN  IF c.ir + reg >= MEMORY_SIZE
        THEN Fail([c EXCEPT !.registers = regs], Panic("memory index"), acc)
        ELSE DoneAcc([c EXCEPT !.registers = regs], CtlNext, acc)

\* ---------------------------------------------------------------- decode

\* Gets the last three nibbles from an instruction.
get_nnn(b1, b2) == BitAnd(b1 * 256 + b2, 4095)

\* get_lowest_bit_pos returning the highest set bit instead
get_highest_bit_pos(num) ==
    IF num = 0 THEN [some |-> FALSE, bit |-> 0]
    ELSE [some |-> TRUE,
          bit |-> CHOOSE i \in 0..15 : Pow2(i) <= num /\ num < Pow2(i + 1)]

\* Get lowest set bit index: [some, bit] (None is some = FALSE)
RECURSIVE lowest_from(_, _)
lowest_from(num, i) ==
    IF i = 16 THEN [some |-> FALSE, bit |-> 0]
    ELSE IF BitAnd(num, Pow2(i)) > 0 THEN [some |-> TRUE, bit |-> i]
    ELSE lowest_from(num, i + 1)

get_lowest_bit_pos(num) == lowest_from(num, 0)

\* the nested match of run on the 0x0 group: by the low byte
run_0(c, b1, b2) ==
    CASE b2 = 224 -> op_cls(c)
      [] b2 = 238 -> op_ret(c)
      [] OTHER -> Fail(c, BadOperationError(b1, b2), {})

\* the 0x5 group without the match on the low nibble: every 5xyN is SE Vx, Vy
run_5_any(c, b1, b2) == op_se_reg(c, b1 % 16, b2 \div 16)

\* on the 0x5 group: by the low nibble
run_5(c, b1, b2) ==
    CASE b2 % 16 = 0 -> op_se_reg(c, b1 % 16, b2 \div 16)
      [] OTHER -> Fail(c, BadOperationError(b1, b2), {})

\* on the 0x8 group: by the low nibble
run_8(c, b1, b2) ==
    LET bottom_b1 == b1 % 16
        top_b2 == b2 \div 16
        bottom_b2 == b2 % 16
    IN  CASE bottom_b2 = 0 -> op_ld_reg(c, bottom_b1, top_b2)
          [] bottom_b2 = 1 -> op_or(c, bottom_b1, top_b2)
          [] bottom_b2 = 2 -> op_and(c, bottom_b1, top_b2)
          [] bottom_b2 = 3 -> op_xor(c, bottom_b1, top_b2)
          [] bottom_b2 = 4 -> op_add_reg(c, bottom_b1, top_b2)
          [] bottom_b2 = 5 -> op_sub_reg(c, bottom_b1, top_b2)
          [] bottom_b2 = 6 -> op_shr(c, bottom_b1)
          [] bottom_b2 = 7 -> op_subn_reg(c, bottom_b1, top_b2)
          [] bottom_b2 = 14 -> op_shl(c, bottom_b1)
          [] OTHER -> Fail(c, BadOperationError(b1, b2), {})

\* on the 0x9 group: by the low nibble
run_9(c, b1, b2) ==
    CASE b2 % 16 = 0 -> op_sne_reg(c, b1 % 16, b2 \div 16)
      [] OTHER -> Fail(c, BadOperationError(b1, b2), {})

\* on the 0xE group: by the low byte
run_E(c, b1, b2, key_input) ==
    CASE b2 = 158 -> op_skp(c, b1 % 16, key_input)
      [] b2 = 161 -> op_sknp(c, b1 % 16, key_input)
      [] OTHER -> Fail(c, BadOperationError(b1, b2), {})

\* on the 0xF group: by the low byte
run_F(c, b1, b2) ==
    LET bottom_b1 == b1 % 16
    IN  CASE b2 = 7 -> op_ld_vx_dt(c, bottom_b1)
          [] b2 = 10 -> op_key_wait(c, bottom_b1)
          [] b2 = 21 -> op_ld_dt_vx(c, bottom_b1)
          [] b2 = 24 -> op_ld_st_vx(c, bottom_b1)
          [] b2 = 30 -> op_add_i_vx(c, bottom_b1)
          [] b2 = 41 -> op_ld_f_vx(c, bottom_b1)
          [] b2 = 51 -> op_ld_b_vx(c, bottom_b1)
          [] b2 = 85 -> op_ld_i_vx(c, bottom_b1)
          [] b2 = 101 -> op_ld_vx_i(c, bottom_b1)
          [] OTHER -> Fail(c, BadOperationError(b1, b2), {})

run(c, b1, b2, key_input, rnd) ==
    LET top_b1 == b1 \div 16
        bottom_b1 == b1 % 16
        top_b2 == b2 \div 16
        bottom_b2 == b2 % 16
    IN  CASE top_b1 = 0 -> run_0(c, b1, b2)
          [] top_b1 = 1 -> op_jp(c, get_nnn(b1, b2))
          [] top_b1 = 2 -> op_call(c, get_nnn(b1, b2))
          [] top_b1 = 3 -> op_se(c, bottom_b1, b2)
          [] top_b1 = 4 -> op_sne(c, bottom_b1, b2)
          [] top_b1 = 5 -> run_5(c, b1, b2)
          [] top_b1 = 6 -> op_ld(c, bottom_b1, b2)
          [] top_b1 = 7 -> op_add(c, bottom_b1, b2)
          [] top_b1 = 8 -> run_8(c, b1, b2)
          [] top_b1 = 9 -> run_9(c, b1, b2)
          [] top_b1 = 10 -> op_ld_i(c, get_nnn(b1, b2))
          [] top_b1 = 11 -> op_jp_v0(c, get_nnn(b1, b2))
          [] top_b1 = 12 -> op_rnd(c, bottom_b1, b2, rnd)
          [] top_b1 = 13 -> op_drw(c, bottom_b1, top_b2, bottom_b2)
          [] top_b1 = 14 -> run_E(c, b1, b2, key_input)
          [] top_b1 = 15 -> run_F(c, b1, b2)
          [] OTHER -> Fail(c, BadOperationError(b1, b2), {})

\* ---------------------------------------------------------------- tick

\* the program counter after a successful run
apply_ctl(c, ctl) ==
    CASE ctl.kind = "Next" -> [c EXCEPT !.pc = c.pc + INSTRUCTION_SIZE]
      [] ctl.kind = "Skip" -> [c EXCEPT !.pc = c.pc + 2 * INSTRUCTION_SIZE]
      [] ctl.kind = "Jump" -> [c EXCEPT !.pc = ctl.addr]

\* the check with >= for >: the last instruction slot is refused
pc_out_of_bounds_ge(c) == c.pc >= MEMORY_SIZE - INSTRUCTION_SIZE

\* the check at the head of tick
pc_out_of_bounds(c) == c.pc > MEMORY_SIZE - INSTRUCTION_SIZE

\* tick advancing the program counter at the fetch, before the opcode runs
tick_advance_first(c, key_input, rnd) ==
    IF pc_out_of_bounds(c)
    THEN [c |-> c, res |-> ProgramCounterError(c.pc), fetched |-> {},
          b1 |-> 0, b2 |-> 0, acc |-> {}, sacc |-> {}]
    ELSE LET b1 == c.memory[c.pc]
             b2 == c.memory[c.pc + 1]
             r == run(c, b1, b2, key_input, rnd)
         IN  [c |-> IF r.res = Ok THEN apply_ctl(r.c, r.ctl)
                    ELSE [r.c EXCEPT !.pc = c.pc + INSTRUCTION_SIZE],
              res |-> r.res, fetched |-> {c.pc, c.pc + 1},
              b1 |-> b1, b2 |-> b2, acc |-> r.acc, sacc |-> r.sacc]

\* One fetch-decode-execute-advance cycle: the machine after it, the result, the
\* addresses fetched from, the two bytes fetched, and the opcode's accesses.
tick(c, key_input, rnd) ==
    IF pc_out_of_bounds(c)
    THEN [c |-> c, res |-> ProgramCounterError(c.pc), fetched |-> {},
          b1 |-> 0, b2 |-> 0, acc |-> {}, sacc |-> {}]
    ELSE LET b1 == c.memory[c.pc]
             b2 == c.memory[c.pc + 1]
             r == run(c, b1, b2, key_input, rnd)
         IN  [c |-> IF r.res = Ok THEN apply_ctl(r.c, r.ctl) ELSE r.c,
              res |-> r.res, fetched |-> {c.pc, c.pc + 1},
              b1 |-> b1, b2 |-> b2, acc |-> r.acc, sacc |-> r.sacc]

\* frame that leaves display_changed as it finds it
frame_keeps_flag(c) ==
    LET dt1 == IF c.dt > 0 THEN c.dt - 1 ELSE c.dt
        st1 == IF c.st > 0 THEN c.st - 1 ELSE c.st
    IN  [c EXCEPT !.dt = dt1, !.st = st1, !.sound_playing = (st1 > 0)]

\* frame that decrements the timers without looking at them
frame_no_floor(c) ==
    LET dt1 == (c.dt + U8 - 1) % U8
        st1 == (c.st + U8 - 1) % U8
    IN  [c EXCEPT !.display_changed = FALSE, !.dt = dt1, !.st = st1,
                  !.sound_playing = (st1 > 0)]

\* Runs after 1/60 sec has elapsed and timers should be ticked down.
frame(c) ==
    LET dt1 == IF c.dt > 0 THEN c.dt - 1 ELSE c.dt
        st1 == IF c.st > 0 THEN c.st - 1 ELSE c.st
    IN  [c EXCEPT !.display_changed = FALSE, !.dt = dt1, !.st = st1,
                  !.sound_playing = (st1 > 0)]

\* the pixel the renderer shows at column px of row py
pixel(fb, px, py) ==
    BitAnd(fb[(py * SCREEN_WIDTH) \div 8 + px \div 8], Pow2(7 - (px % 8))) > 0

\* keypad_press without the test for a set bit: an empty mask resolves the wait
keypad_press_any(c, key_press) ==
    IF c.keypad_waiting
    THEN [c EXCEPT !.keypad_waiting = FALSE,
                   !.registers[c.keypad_reg] = get_lowest_bit_pos(key_press).bit]
    ELSE c

keypad_press(c, key_press) ==
    IF c.keypad_waiting
    THEN LET low == get_lowest_bit_pos(key_press)
         IN  IF low.some
             THEN [c EXCEPT !.keypad_waiting = FALSE,
                            !.registers[c.keypad_reg] = low.bit]
             ELSE c
    ELSE c

\* ---------------------------------------------------------------- programs

\* A random V0 and a store at 0: the word at address 0 becomes one of 00EE,
\* 02EE, 20EE, 22EE.  Then a loop that CALLs itself while key 0 is up and
\* RETurns, again and again, once it is down.
RomStack ==
    << 192, 34,    \* 200: RND V0, 0x22
       97, 238,    \* 202: LD V1, 0xEE
       160, 0,     \* 204: LD I, 0
       241, 85,    \* 206: LD [I], V0..V1
       226, 158,   \* 208: SKP V2
       34, 8,      \* 20A: CALL 0x208
       0, 238 >>   \* 20C: RET

\* The index register at the end of memory, then a jump into a table of the
\* opcodes that index memory with it.
RomMem ==
    << 192, 14,    \* 200: RND V0, 0x0E
       110, 128,   \* 202: LD VE, 0x80
       175, 255,   \* 204: LD I, 0xFFF
       178, 8,     \* 206: JP V0, 0x208
       208, 18,    \* 208: DRW V0, V1, 2
       240, 51,    \* 20A: LD B, V0
       241, 85,    \* 20C: LD [I], V0..V1
       241, 101,   \* 20E: LD V0..V1, [I]
       254, 30,    \* 210: ADD I, VE
       240, 101,   \* 212: LD V0, [I]
       208, 17 >>  \* 214: DRW V0, V1, 1

\* A program that fills the memory, with a key test as its last instruction,
\* and jumps to the end of memory and past it.
RomPcHead ==
    << 192, 6,     \* 200: RND V0, 0x06
       178, 4,     \* 202: JP V0, 0x204
       31, 254,    \* 204: JP 0xFFE
       31, 255,    \* 206: JP 0xFFF
       96, 255,    \* 208: LD V0, 0xFF
       191, 255 >> \* 20A: JP V0, 0xFFF

RomPc ==
    [i \in 1..(MEMORY_SIZE - MEMORY_OFFSET) |->
        IF i <= Len(RomPcHead) THEN RomPcHead[i]
        ELSE IF i = MEMORY_SIZE - MEMORY_OFFSET - 1 THEN 225   \* FFE: SKP V1
        ELSE IF i = MEMORY_SIZE - MEMORY_OFFSET THEN 158
        ELSE 0]

\* A key wait, timers set, a second key wait, and a loop.
RomKey ==
    << 243, 10,    \* 200: LD V3, K
       99, 3,      \* 202: LD V3, 3
       243, 24,    \* 204: LD ST, V3
       243, 21,    \* 206: LD DT, V3
       244, 10,    \* 208: LD V4, K
       208, 21,    \* 20A: DRW V0, V1, 5
       0, 224,     \* 20C: CLS
       18, 10 >>   \* 20E: JP 0x20A

\* how many of the ticks that return an error are counted
MaxErrs == 2

\* how many bytes more than fit a program may have
MaxOver == 2

\* a program of n bytes, none of them 0
BigRom(n) == [i \in 1..n |-> (i % 255) + 1]

Roms ==
    {<<>>, RomStack, RomMem, RomPc, RomKey}
    \cup {BigRom(MEMORY_SIZE - MEMORY_OFFSET + d) : d \in 0..MaxOver}

\* the key masks the host passes
KeyMasks == {0, 1, 40}

\* ---------------------------------------------------------------- Spec

\* what is kept of the machine a call was made on
Pre(c) == [registers |-> c.registers, frame_buffer |-> c.frame_buffer, ir |-> c.ir]

NoCall ==
    [op |-> "new", res |-> Ok, pc0 |-> 0, b1 |-> 0, b2 |-> 0, fetched |-> {},
     acc |-> {}, sacc |-> {}, depth0 |-> 0, ret0 |-> 0, arg |-> 0,
     pre |-> Pre(Chip8New)]

\* The inputs a tick reads: the key mask only in Ex9E/ExA1, the random byte
\* only in Cxkk (run hands them to no other opcode).
TickKeys(c) ==
    IF c.pc <= MEMORY_SIZE - INSTRUCTION_SIZE /\ c.memory[c.pc] \div 16 = 14
    THEN KeyMasks ELSE {0}

TickRnds(c) ==
    IF c.pc <= MEMORY_SIZE - INSTRUCTION_SIZE /\ c.memory[c.pc] \div 16 = 12
    THEN 0..(U8 - 1) ELSE {0}

\* the CALLs outstanding after a tick t from the machine c
ShadowAfter(sh, c, t) ==
    IF t.res # Ok THEN sh
    ELSE IF t.b1 \div 16 = 2 THEN <<c.pc + INSTRUCTION_SIZE>> \o sh
    ELSE IF t.b1 \div 16 = 0 /\ t.b2 = 238 /\ sh # <<>> THEN Tail(sh)
    ELSE sh

TickCall(sh, c, t) ==
    [op |-> "tick", res |-> t.res, pc0 |-> c.pc, b1 |-> t.b1, b2 |-> t.b2,
     fetched |-> t.fetched, acc |-> t.acc, sacc |-> t.sacc,
     depth0 |-> Len(sh), ret0 |-> IF sh = <<>> THEN 0 ELSE Head(sh), arg |-> 0,
     pre |-> Pre(Chip8New)]

lockvars == <<mutex, sim_at, gui_at>>

hostvars ==
    <<thread, gui, dbg_paused, gui_paused, chan, file, last_key_input, keys, sent,
      lockvars>>

vars == <<chip8, overflow_checks, phase, last, failed, errs, shadow, hostvars>>

NoneSent == [msg |-> "none", ok |-> TRUE, after_fatal |-> FALSE]

\* the mutexes free, and no thread's steps followed
LocksIdle ==
    /\ mutex = [m \in {"chip8", "debugger", "keys"} |->
                   [owner |-> "none", poisoned |-> FALSE]]
    /\ sim_at = [path |-> "none", at |-> 1, paused |-> FALSE]
    /\ gui_at = [path |-> "none", at |-> 1]

\* no host: the machine is driven through its interface alone
HostIdle ==
    /\ thread = "none"
    /\ gui = "none"
    /\ dbg_paused = FALSE
    /\ gui_paused = FALSE
    /\ chan = <<>>
    /\ file = <<>>
    /\ last_key_input = 0
    /\ keys = 0
    /\ sent = NoneSent
    /\ LocksIdle

Init ==
    /\ chip8 = Chip8New
    /\ overflow_checks \in BOOLEAN
    /\ phase = "fresh"
    /\ last = NoCall
    /\ failed = Ok
    /\ errs = 0
    /\ shadow = <<>>
    /\ HostIdle

Load ==
    /\ phase = "fresh"
    /\ \E bytes \in Roms :
          LET l == load(chip8, bytes)
          IN  /\ chip8' = l.c
              /\ phase' = IF l.res = Ok THEN "loaded" ELSE "load_failed"
              /\ last' = [NoCall EXCEPT !.op = "load", !.res = l.res, !.arg = Len(bytes)]
    /\ UNCHANGED <<overflow_checks, failed, errs, shadow, hostvars>>

Tick ==
    /\ phase = "loaded"
    /\ \E key_input \in TickKeys(chip8), rnd \in TickRnds(chip8) :
          LET t == tick(chip8, key_input, rnd)
          IN  /\ chip8' = t.c
              /\ phase' = IF t.res.kind = "panic" THEN "aborted" ELSE phase
              /\ last' = TickCall(shadow, chip8, t)
              /\ failed' = IF failed = Ok /\ t.res.kind \in ErrorKinds
                           THEN t.res ELSE failed
              /\ errs' = IF t.res.kind \in ErrorKinds
                         THEN Min(errs + 1, MaxErrs) ELSE errs
              /\ shadow' = ShadowAfter(shadow, chip8, t)
    /\ UNCHANGED <<overflow_checks, hostvars>>

Frame ==
    /\ phase = "loaded"
    /\ chip8' = frame(chip8)
    /\ last' = [NoCall EXCEPT !.op = "frame"]
    /\ UNCHANGED <<overflow_checks, phase, failed, errs, shadow, hostvars>>

KeypadPress ==
    /\ phase = "loaded"
    /\ \E key_press \in KeyMasks :
          /\ chip8' = keypad_press(chip8, key_press)
          /\ last' = [NoCall EXCEPT !.op = "keypad_press", !.arg = key_press]
    /\ UNCHANGED <<overflow_checks, phase, failed, errs, shadow, hostvars>>

Next == Load \/ Tick \/ Frame \/ KeypadPress

Spec == Init /\ [][Next]_vars

\* ---------------------------------------------------------------- SpecDecode

\* One tick of a fresh machine on each two-byte program (b1, b2): b2 is any
\* byte, b1 has any high nibble and a low nibble up to MaxDecodeX.
MaxDecodeX == 0

DecodeWords ==
    {<<16 * h + x, b2>> : h \in 0..15, x \in 0..MaxDecodeX, b2 \in 0..(U8 - 1)}

InitDecode ==
    /\ \E w \in DecodeWords : chip8 = load(Chip8New, w).c
    /\ overflow_checks \in BOOLEAN
    /\ phase = "loaded"
    /\ last = NoCall
    /\ failed = Ok
    /\ errs = 0
    /\ shadow = <<>>
    /\ HostIdle

DecodeTick ==
    /\ last.op = "new"
    /\ Tick

SpecDecode == InitDecode /\ [][DecodeTick]_vars

\* ---------------------------------------------------------------- SpecDraw
\* DRW on its own: a program that draws the glyph "0" at (0, 0), sets Vx and
\* Vy, points I at a sprite and draws it twice.

DrawRegs == {<<0, 1>>, <<0, 0>>, <<15, 1>>, <<0, 15>>}

DrawXs == {0, 60, 255}

DrawYs == {0, 30, 255}

DrawRows == {0, 1, 5, 15}

\* the glyph "F", a run of zeros, the program itself, the last 15 bytes of
\* memory, the last byte of memory
DrawSprites == {75, 80, MEMORY_OFFSET, MEMORY_SIZE - 15, MEMORY_SIZE - 1}

RomDraw(x, y, vx, vy, n, i) ==
    << 160, 0,                      \* 200: LD I, 0
       210, 53,                     \* 202: DRW V2, V3, 5
       96 + x, vx,                  \* 204: LD Vx, vx
       96 + y, vy,                  \* 206: LD Vy, vy
       160 + (i \div 256), i % 256, \* 208: LD I, i
       208 + x, 16 * y + n,         \* 20A: DRW Vx, Vy, n
       208 + x, 16 * y + n >>       \* 20C: DRW Vx, Vy, n

RomDrawLen == 14

InitDraw ==
    /\ overflow_checks \in BOOLEAN
    /\ \E xy \in DrawRegs, vx \in DrawXs, vy \in DrawYs, n \in DrawRows,
          i \in DrawSprites :
          chip8 = load(Chip8New, RomDraw(xy[1], xy[2], vx, vy, n, i)).c
    /\ phase = "loaded"
    /\ last = NoCall
    /\ failed = Ok
    /\ errs = 0
    /\ shadow = <<>>
    /\ HostIdle

\* one tick of the program, keeping the machine it was made on
DrawTick ==
    /\ phase = "loaded"
    /\ chip8.pc < MEMORY_OFFSET + RomDrawLen
    /\ LET t == tick(chip8, 0, 0)
       IN  /\ chip8' = t.c
           /\ phase' = IF t.res.kind = "panic" THEN "aborted" ELSE phase
           /\ last' = [TickCall(shadow, chip8, t) EXCEPT !.pre = Pre(chip8)]
    /\ UNCHANGED <<overflow_checks, failed, errs, shadow, hostvars>>

SpecDraw == InitDraw /\ [][DrawTick]_vars

\* ---------------------------------------------------------------- SpecAlu
\* The arithmetic of the 0x8 group on its own: a program that sets Vx and Vy
\* and executes one of 8xy4, 8xy5, 8xy6, 8xy7, 8xyE.

AluRegs == {<<0, 1>>, <<0, 0>>, <<15, 1>>, <<1, 15>>, <<15, 15>>}

AluBytes == {0, 1, 127, 128, 200, 255}

AluOps == {4, 5, 6, 7, 14}

RomAlu(x, y, vx, vy, n) ==
    << 96 + x, vx,            \* 200: LD Vx, vx
       96 + y, vy,            \* 202: LD Vy, vy
       128 + x, 16 * y + n >> \* 204: the 8xyN

RomAluLen == 6

InitAlu ==
    /\ overflow_checks \in BOOLEAN
    /\ \E xy \in AluRegs, vx \in AluBytes, vy \in AluBytes, n \in AluOps :
          chip8 = load(Chip8New, RomAlu(xy[1], xy[2], vx, vy, n)).c
    /\ phase = "loaded"
    /\ last = NoCall
    /\ failed = Ok
    /\ errs = 0
    /\ shadow = <<>>
    /\ HostIdle

AluTick ==
    /\ phase = "loaded"
    /\ chip8.pc < MEMORY_OFFSET + RomAluLen
    /\ LET t == tick(chip8, 0, 0)
       IN  /\ chip8' = t.c
           /\ phase' = IF t.res.kind = "panic" THEN "aborted" ELSE phase
           /\ last' = [TickCall(shadow, chip8, t) EXCEPT !.pre = Pre(chip8)]
    /\ UNCHANGED <<overflow_checks, failed, errs, shadow, hostvars>>

SpecAlu == InitAlu /\ [][AluTick]_vars

\* ---------------------------------------------------------------- SpecKeys
\* keypad_press on its own: one LD Vx, K on a fresh machine, and edge masks
\* given to keypad_press before and after it.

KeyRegs == {0, 4, 15}

\* no key, every single key, keys 3 and 5 together, all keys
WaitMasks == {0, 40, U16 - 1} \cup {Pow2(i) : i \in 0..15}

InitKeys ==
    /\ overflow_checks \in BOOLEAN
    /\ \E x \in KeyRegs : chip8 = load(Chip8New, <<240 + x, 10>>).c
    /\ phase = "loaded"
    /\ last = NoCall
    /\ failed = Ok
    /\ errs = 0
    /\ shadow = <<>>
    /\ HostIdle

KeysPress ==
    /\ phase = "loaded"
    /\ \E key_press \in WaitMasks :
          /\ chip8' = keypad_press(chip8, key_press)
          /\ last' = [NoCall EXCEPT !.op = "keypad_press", !.arg = key_press]
    /\ UNCHANGED <<overflow_checks, phase, failed, errs, shadow, hostvars>>

KeysNext == DecodeTick \/ KeysPress

SpecKeys == InitKeys /\ [][KeysNext]_vars

\* ---------------------------------------------------------------- programs run alone
\* A specification of this kind loads one program of a family into a fresh
\* machine and ticks through its len bytes, with key masks from masks.

InitProg(roms) ==
    /\ overflow_checks \in BOOLEAN
    /\ \E bytes \in roms : chip8 = load(Chip8New, bytes).c
    /\ phase = "loaded"
    /\ last = NoCall
    /\ failed = Ok
    /\ errs = 0
    /\ shadow = <<>>
    /\ HostIdle

ProgTick(masks, len) ==
    /\ phase = "loaded"
    /\ chip8.pc < MEMORY_OFFSET + len
    /\ \E key_input \in masks, rnd \in TickRnds(chip8) :
          LET t == tick(chip8, key_input, rnd)
          IN  /\ chip8' = t.c
              /\ phase' = IF t.res.kind = "panic" THEN "aborted" ELSE phase
              /\ last' = [TickCall(shadow, chip8, t) EXCEPT !.pre = Pre(chip8),
                                                            !.arg = key_input]
    /\ UNCHANGED <<overflow_checks, failed, errs, shadow, hostvars>>

\* ---------------------------------------------------------------- SpecCopy
\* Fx55 and Fx65: four registers are set, V0..Vx are stored at i, and V0..Vy
\* are read back from j.

CopyRegs == {0, 1, 2, 15}

\* free memory, and the last bytes of memory
CopyTargets == {768, 4080, 4094, 4095}

\* the font, the program itself, the last bytes of memory
CopySources == {0, 512, 4094}

RomCopy(x, y, i, j) ==
    << 96, 17,  97, 34,  98, 51,  111, 68, \* 200: LD V0,0x11 V1,0x22 V2,0x33 VF,0x44
       160 + i \div 256, i % 256,          \* 208: LD I, i
       240 + x, 85,                        \* 20A: LD [I], Vx
       160 + j \div 256, j % 256,          \* 20C: LD I, j
       240 + y, 101 >>                     \* 20E: LD Vy, [I]

CopyRoms ==
    {RomCopy(x, y, i, j) : x \in CopyRegs, y \in CopyRegs,
                           i \in CopyTargets, j \in CopySources}

\* the program is 16 bytes long
CopyTick == ProgTick({0}, 16)

SpecCopy == InitProg(CopyRoms) /\ [][CopyTick]_vars

\* ---------------------------------------------------------------- SpecBcd
\* Fx33: Vx is set to every byte value and its digits are stored at 0x300.

BcdRoms ==
    {<< 96 + x, v,                          \* 200: LD Vx, v
        163, 0,                             \* 202: LD I, 0x300
        240 + x, 51 >> :                    \* 204: LD B, Vx
     x \in {0, 15}, v \in 0..(U8 - 1)}

\* the program is 6 bytes long
BcdTick == ProgTick({0}, 6)

SpecBcd == InitProg(BcdRoms) /\ [][BcdTick]_vars

\* ---------------------------------------------------------------- SpecSkip
\* Ex9E and ExA1: Vx is set to a key number 0..F and the skip is executed
\* under a key mask of WaitMasks.

SkipRoms ==
    {<< 96 + x, k,                          \* 200: LD Vx, k
        224 + x, b2 >> :                    \* 202: SKP Vx / SKNP Vx
     x \in {0, 15}, k \in 0..15, b2 \in {158, 161}}

\* the program is 4 bytes long
SkipTick == ProgTick(WaitMasks, 4)

SpecSkip == InitProg(SkipRoms) /\ [][SkipTick]_vars

\* ---------------------------------------------------------------- SpecAddImm
\* 6xkk then 7xkk on the same register; x = A, a = 0x0A, b = 0x05 is the
\* program 6A 0A 7A 05.

AddImmRoms ==
    {<< 96 + x, a,                          \* 200: LD Vx, a
        112 + x, b >> :                     \* 202: ADD Vx, b
     x \in {0, 10, 15}, a \in {0, 10, 128, 200, 255}, b \in {0, 5, 56, 128, 255}}

\* the program is 4 bytes long
AddImmTick == ProgTick({0}, 4)

SpecAddImm == InitProg(AddImmRoms) /\ [][AddImmTick]_vars

\* ---------------------------------------------------------------- SpecCls
\* 00E0 alone, loaded into a machine whose frame buffer (a pub field) the
\* embedder has filled with one byte value, 0xFF among them.

InitCls ==
    /\ overflow_checks \in BOOLEAN
    /\ \E v \in 0..(U8 - 1) :
          chip8 = load([Chip8New EXCEPT !.frame_buffer =
                           [i \in DOMAIN Chip8New.frame_buffer |-> v]],
                       <<0, 224>>).c
    /\ phase = "loaded"
    /\ last = NoCall
    /\ failed = Ok
    /\ errs = 0
    /\ shadow = <<>>
    /\ HostIdle

\* the program is 2 bytes long
ClsTick == ProgTick({0}, 2)

SpecCls == InitCls /\ [][ClsTick]_vars

\* ---------------------------------------------------------------- translator.rs
\* translate gives the text of an instruction word; the model keeps the
\* mnemonic with its operand pattern (op) and the operand values in the order
\* they are printed (args).  XXXX is the text for an undefined word.

Xxxx(b1, b2) == [op |-> "XXXX", args |-> <<b1, b2>>]

translate(b1, b2) ==
    LET bits == <<b1 \div 16, b1 % 16, b2 \div 16, b2 % 16>>
        nnn == get_nnn(b1, b2)
        vx(op) == [op |-> op, args |-> <<bits[2]>>]
        vx_kk(op) == [op |-> op, args |-> <<bits[2], b2>>]
        vx_vy(op) == [op |-> op, args |-> <<bits[2], bits[3]>>]
        addr(op) == [op |-> op, args |-> <<nnn>>]
    IN  CASE bits[1] = 0 ->
               (CASE nnn = 224 -> [op |-> "CLS", args |-> <<>>]
                  [] nnn = 238 -> [op |-> "RET", args |-> <<>>]
                  [] OTHER -> Xxxx(b1, b2))
          [] bits[1] = 1 -> addr("JP nnn")
          [] bits[1] = 2 -> addr("CALL nnn")
          [] bits[1] = 3 -> vx_kk("SE Vx, kk")
          [] bits[1] = 4 -> vx_kk("SNE Vx, kk")
          [] bits[1] = 5 ->
               (CASE bits[4] = 0 -> vx_vy("SE Vx, Vy")
                  [] OTHER -> Xxxx(b1, b2))
          [] bits[1] = 6 -> vx_kk("LD Vx, kk")
          [] bits[1] = 7 -> vx_kk("ADD Vx, kk")
          [] bits[1] = 8 ->
               (CASE bits[4] = 0 -> vx_vy("LD Vx, Vy")
                  [] bits[4] = 1 -> vx_vy("OR Vx, Vy")
                  [] bits[4] = 2 -> vx_vy("AND Vx, Vy")
                  [] bits[4] = 3 -> vx_vy("XOR Vx, Vy")
                  [] bits[4] = 4 -> vx_vy("ADD Vx, Vy")
                  [] bits[4] = 5 -> vx_vy("SUB Vx, Vy")
                  [] bits[4] = 6 -> vx_vy("SHR Vx, <Vy>")
                  [] bits[4] = 7 -> vx_vy("SUBN Vx, Vy")
                  [] bits[4] = 14 -> vx_vy("SHL Vx, <Vy>")
                  [] OTHER -> Xxxx(b1, b2))
          [] bits[1] = 9 ->
               (CASE bits[4] = 0 -> vx_vy("SNE Vx, Vy")
                  [] OTHER -> Xxxx(b1, b2))
          [] bits[1] = 10 -> addr("LD I, nnn")
          [] bits[1] = 11 -> addr("JP V0, nnn")
          [] bits[1] = 12 -> vx_kk("RND Vx, kk")
          [] bits[1] = 13 -> [op |-> "DRW Vx, Vy, n",
                              args |-> <<bits[2], bits[3], bits[4]>>]
          [] bits[1] = 14 ->
               (CASE b2 = 158 -> vx("SKP Vx")
                  [] b2 = 161 -> vx("SKNP Vx")
                  [] OTHER -> Xxxx(b1, b2))
          [] bits[1] = 15 ->
               (CASE b2 = 7 -> vx("LD Vx, DT")
                  [] b2 = 10 -> vx("LD Vx, K")
                  [] b2 = 21 -> vx("LD DT, Vx")
                  [] b2 = 24 -> vx("LD ST, Vx")
                  [] b2 = 30 -> vx("ADD I, Vx")
                  [] b2 = 41 -> vx("LD F, Vx")
                  [] b2 = 51 -> vx("LD B, Vx")
                  [] b2 = 85 -> vx("LD [I], Vx")
                  [] b2 = 101 -> vx("LD Vx, [I]")
                  [] OTHER -> Xxxx(b1, b2))
          [] OTHER -> Xxxx(b1, b2)

\* ---------------------------------------------------------------- SpecDisasm
\* One tick of a fresh machine on each word (b1, b2) with any high nibble, a
\* second nibble of 1 and a low byte of DisasmBytes, and on 0000, 00E0 and
\* 00EE, to compare with its translation.

\* every low nibble under the high nibbles of the low bytes run matches on
\* (07 0A 15 18 1E 29 33 55 65 9E A1 E0 EE)
DisasmBytes == {b2 \in 0..(U8 - 1) : b2 \div 16 \in {0, 1, 2, 3, 5, 6, 9, 10, 14}}

DisasmWords ==
    {<<16 * h + 1, b2>> : h \in 0..15, b2 \in DisasmBytes}
        \cup {<<0, 0>>, <<0, 224>>, <<0, 238>>}

\* no key is down and the random byte is 0
DisasmTick ==
    /\ phase = "loaded"
    /\ last.op = "new"
    /\ LET t == tick(chip8, 0, 0)
       IN  /\ chip8' = t.c
           /\ phase' = IF t.res.kind = "panic" THEN "aborted" ELSE phase
           /\ last' = TickCall(shadow, chip8, t)
    /\ UNCHANGED <<overflow_checks, failed, errs, shadow, hostvars>>

SpecDisasm == InitProg(DisasmWords) /\ [][DisasmTick]_vars

\* ---------------------------------------------------------------- HostSpec
\* main.rs and gui.rs: the simulation thread and the GUI around one machine.

MaxChan == 1

\* LD V0,1; LD V0,K; then the undefined word 0000
RomHalt == <<96, 1, 240, 10, 0, 0>>

\* RET with no CALL before it
RomRet == <<0, 238>>

StartFiles == {<<>>, RomHalt, RomRet}

ReloadFiles == {RomHalt, BigRom(MEMORY_SIZE - MEMORY_OFFSET + 1)}

DebugInstructions ==
    {[msg |-> m, bytes |-> <<>>] : m \in {"Step", "Frame", "Reset"}}
        \cup {[msg |-> "Reload", bytes |-> f] : f \in ReloadFiles}

\* last_key_input & !*key_input
key_edge(last_keys, key_input) == BitAnd(last_keys, (U16 - 1) - key_input)

\* what the simulation thread does with the result of a tick
thread_after_tick(res) ==
    IF res = Ok THEN "running"
    ELSE IF res.kind = "panic" THEN "panicked"
    ELSE "exited"

\* the receiver lives in the simulation thread's closure
receiver_alive == thread = "running"

HostTicked(c, t) ==
    /\ chip8' = t.c
    /\ thread' = thread_after_tick(t.res)
    /\ last' = TickCall(shadow, c, t)
    /\ failed' = IF failed = Ok /\ t.res.kind \in ErrorKinds THEN t.res ELSE failed
    /\ errs' = IF t.res.kind \in ErrorKinds THEN Min(errs + 1, MaxErrs) ELSE errs
    /\ shadow' = ShadowAfter(shadow, c, t)

HostReplaced(op, bytes) ==
    LET l == load(Chip8New, bytes)
    IN  /\ chip8' = l.c
        /\ file' = bytes
        /\ thread' = IF l.res = Ok THEN "running" ELSE "panicked"
        /\ last' = [NoCall EXCEPT !.op = op, !.res = l.res, !.arg = Len(bytes)]
        /\ failed' = Ok
        /\ errs' = 0
        /\ shadow' = <<>>

InitHost ==
    /\ overflow_checks \in BOOLEAN
    /\ file \in StartFiles
    /\ chip8 = IF file = <<>> THEN Chip8New ELSE load(Chip8New, file).c
    /\ dbg_paused = (file = <<>>)
    /\ gui_paused = dbg_paused
    /\ phase = "host"
    /\ last = NoCall
    /\ failed = Ok
    /\ errs = 0
    /\ shadow = <<>>
    /\ thread = "running"
    /\ gui = "running"
    /\ chan = <<>>
    /\ last_key_input = 0
    /\ keys = 0
    /\ sent = NoneSent
    /\ LocksIdle

\* one turn of the loop while the debugger is not paused
SimRun ==
    /\ phase = "host"
    /\ thread = "running"
    /\ gui # "closed"
    /\ ~dbg_paused
    /\ \E time_passed \in BOOLEAN :
          LET c1 == IF time_passed THEN frame(chip8) ELSE chip8
              key_press == key_edge(last_key_input, keys)
              c2 == IF key_press > 0 THEN keypad_press(c1, key_press) ELSE c1
          IN  \E rnd \in TickRnds(c2) : HostTicked(c2, tick(c2, keys, rnd))
    /\ last_key_input' = keys
    /\ UNCHANGED <<overflow_checks, phase, gui, dbg_paused, gui_paused, chan,
                   file, keys, sent,
                   lockvars>>

\* one turn of the loop while the debugger is paused and an instruction waits
SimRecv ==
    /\ phase = "host"
    /\ thread = "running"
    /\ dbg_paused
    /\ chan # <<>>
    /\ chan' = Tail(chan)
    /\ LET m == Head(chan)
       IN  CASE m.msg = "Step" ->
                  /\ \E rnd \in TickRnds(chip8) :
                        HostTicked(chip8, tick(chip8, last_key_input, rnd))
                  /\ UNCHANGED file
             [] m.msg = "Frame" ->
                  /\ chip8' = frame(chip8)
                  /\ last' = [NoCall EXCEPT !.op = "frame"]
                  /\ UNCHANGED <<thread, file, failed, errs, shadow>>
             [] m.msg = "Reset" -> HostReplaced("reset", file)
             [] m.msg = "Reload" -> HostReplaced("reload", m.bytes)
    /\ UNCHANGED <<overflow_checks, phase, gui, dbg_paused, gui_paused,
                   last_key_input, keys, sent,
                   lockvars>>

\* the paused loop finds the channel empty and its sender gone
SimDisconnected ==
    /\ phase = "host"
    /\ thread = "running"
    /\ dbg_paused
    /\ chan = <<>>
    /\ gui = "closed"
    /\ thread' = "exited"
    /\ UNCHANGED <<chip8, overflow_checks, phase, last, failed, errs, shadow,
                   gui, dbg_paused, gui_paused, chan, file, last_key_input,
                   keys, sent,
                   lockvars>>

\* ChipGUI::update: keys, the debugger state, then the controls window
GuiUpdate ==
    /\ phase = "host"
    /\ gui = "running"
    /\ \E k \in KeyMasks : keys' = k
    /\ dbg_paused' = gui_paused
    /\ IF thread = "panicked"
       THEN \* the machine's mutex is poisoned: lock().unwrap() panics
            /\ gui' = "panicked"
            /\ UNCHANGED <<gui_paused, chan, sent>>
       ELSE \/ UNCHANGED <<gui, gui_paused, chan, sent>>
            \/ /\ gui_paused' = ~gui_paused
               /\ UNCHANGED <<gui, chan, sent>>
            \/ /\ gui_paused
               /\ Len(chan) < MaxChan
               /\ \E m \in DebugInstructions :
                     /\ sent' = [msg |-> m.msg, ok |-> receiver_alive,
                                 after_fatal |-> failed # Ok]
                     /\ chan' = IF receiver_alive THEN Append(chan, m) ELSE chan
                     /\ gui' = IF receiver_alive THEN gui ELSE "panicked"
               /\ UNCHANGED gui_paused
    /\ UNCHANGED <<chip8, overflow_checks, phase, last, failed, errs, shadow,
                   thread, file, last_key_input,
                   lockvars>>

\* the window is closed: the GUI and its sender go away
GuiClose ==
    /\ phase = "host"
    /\ gui = "running"
    /\ gui' = "closed"
    /\ UNCHANGED <<chip8, overflow_checks, phase, last, failed, errs, shadow,
                   thread, dbg_paused, gui_paused, chan, file, last_key_input,
                   keys, sent,
                   lockvars>>

HostNext == SimRun \/ SimRecv \/ SimDisconnected \/ GuiUpdate \/ GuiClose

HostSpec == InitHost /\ [][HostNext]_vars

\* ---------------------------------------------------------------- LockSpec
\* The two threads at the level of their mutex guards: each thread's code is
\* the sequence of its lock, unlock and access steps, in the order of the
\* guards' scopes in main.rs and gui.rs.  An access of the machine is a step
\* "machine"; "local" steps touch none of the shared state.

\* ChipGUI::update with the debugger guard held until the end of the next
\* scope, where the machine is locked
GuiCodeNested ==
    LET Lock(m) == [op |-> "lock", m |-> m]
        Unlock(m) == [op |-> "unlock", m |-> m]
        Window(w) == <<Lock("chip8"), [op |-> "machine", m |-> w], Unlock("chip8")>>
    IN  <<Lock("keys"), Unlock("keys")>>
            \o <<Lock("debugger"), Lock("chip8"),
                 [op |-> "machine", m |-> "quirks_mode"], Unlock("chip8"),
                 Unlock("debugger")>>
            \o Window("instructions")
            \o <<[op |-> "local", m |-> "controls"]>>
            \o Window("registers")
            \o Window("game_window")

\* ChipGUI::update: the key mask, the debugger state, quirks_mode, then the
\* four windows, of which all but "controls" read the machine
GuiCode ==
    LET Lock(m) == [op |-> "lock", m |-> m]
        Unlock(m) == [op |-> "unlock", m |-> m]
        Window(w) == <<Lock("chip8"), [op |-> "machine", m |-> w], Unlock("chip8")>>
    IN  <<Lock("keys"), Unlock("keys")>>
            \o <<Lock("debugger"), Unlock("debugger")>>
            \o Window("quirks_mode")
            \o Window("instructions")
            \o <<[op |-> "local", m |-> "controls"]>>
            \o Window("registers")
            \o Window("game_window")

\* One turn of the simulation loop: "head" reads paused; then "unpaused", or
\* the arm of try_recv ("none" when the channel is empty).
SimCode(path) ==
    LET Lock(m) == [op |-> "lock", m |-> m]
        Unlock(m) == [op |-> "unlock", m |-> m]
        Machine(w) == [op |-> "machine", m |-> w]
    IN  CASE path = "head" -> <<Lock("debugger"), Unlock("debugger")>>
          [] path = "unpaused" ->
                <<Lock("chip8"),
                  Lock("debugger"), Unlock("debugger"),      \* run_speed
                  Machine("frame"),
                  Lock("keys"), Machine("keypad_press"), Unlock("keys"),
                  Machine("tick"),
                  Unlock("chip8"),
                  Lock("debugger"), Unlock("debugger")>>     \* run_speed
          [] path \in {"Step", "Frame", "Reset", "Reload"} ->
                <<Lock("chip8"), Machine(path), Unlock("chip8")>>
          [] OTHER -> <<>>

\* the mutexes after thread t has dropped every guard it holds, poisoning
\* them when it drops them in a panic
Dropped(t, poison) ==
    [m \in DOMAIN mutex |->
        IF mutex[m].owner = t
        THEN [owner |-> "none", poisoned |-> mutex[m].poisoned \/ poison]
        ELSE mutex[m]]

\* What a step s of thread t can do: the mutexes after it, and whether the
\* thread goes on ("ok"), returns ("exited") or panics.  lock() waits while
\* the mutex is held and its unwrap() panics on a poisoned mutex; tick can
\* return an error; tick, frame (the beep's unwrap) and load().unwrap() in
\* Reset and Reload can panic.
Exec(t, s) ==
    CASE s.op = "lock" ->
            IF mutex[s.m].owner # "none" THEN {}
            ELSE IF mutex[s.m].poisoned
            THEN {[mutex |-> Dropped(t, TRUE), end |-> "panicked"]}
            ELSE {[mutex |-> [mutex EXCEPT ![s.m].owner = t], end |-> "ok"]}
      [] s.op = "unlock" ->
            {[mutex |-> [mutex EXCEPT ![s.m].owner = "none"], end |-> "ok"]}
      [] OTHER ->
            {[mutex |-> mutex, end |-> "ok"]}
                \cup (IF s.m \in {"tick", "Step"}
                      THEN {[mutex |-> Dropped(t, FALSE), end |-> "exited"]} ELSE {})
                \cup (IF s.m \in {"tick", "Step", "frame", "Frame", "Reset", "Reload"}
                      THEN {[mutex |-> Dropped(t, TRUE), end |-> "panicked"]} ELSE {})

InitLocks ==
    /\ chip8 = Chip8New
    /\ overflow_checks \in BOOLEAN
    /\ phase = "locks"
    /\ last = NoCall
    /\ failed = Ok
    /\ errs = 0
    /\ shadow = <<>>
    /\ thread = "running"
    /\ gui = "running"
    /\ dbg_paused \in BOOLEAN
    /\ gui_paused = dbg_paused
    /\ chan = <<>>
    /\ file = <<>>
    /\ last_key_input = 0
    /\ keys = 0
    /\ sent = NoneSent
    /\ mutex = [m \in {"chip8", "debugger", "keys"} |->
                   [owner |-> "none", poisoned |-> FALSE]]
    /\ sim_at = [path |-> "head", at |-> 1, paused |-> FALSE]
    /\ gui_at = [path |-> "update", at |-> 1]

\* a step of the simulation thread
SimStep ==
    /\ phase = "locks"
    /\ sim_at.path \notin {"exited", "panicked"}
    /\ LET code == SimCode(sim_at.path)
       IN  IF sim_at.at > Len(code)
           THEN /\ mutex' = mutex
                /\ IF sim_at.path # "head"
                   THEN sim_at' = [sim_at EXCEPT !.path = "head", !.at = 1]
                   ELSE IF ~sim_at.paused
                   THEN sim_at' = [sim_at EXCEPT !.path = "unpaused", !.at = 1]
                   ELSE \E arm \in {"none", "Step", "Frame", "Reset", "Reload"} :
                           sim_at' = [sim_at EXCEPT !.path = arm, !.at = 1]
           ELSE \E o \in Exec("sim", code[sim_at.at]) :
                   /\ mutex' = o.mutex
                   /\ sim_at' =
                         IF o.end # "ok"
                         THEN [sim_at EXCEPT !.path = o.end, !.at = 1]
                         ELSE IF sim_at.path = "head" /\ code[sim_at.at].op = "unlock"
                         THEN [sim_at EXCEPT !.at = @ + 1, !.paused = dbg_paused]
                         ELSE [sim_at EXCEPT !.at = @ + 1]
    /\ UNCHANGED <<chip8, overflow_checks, phase, last, failed, errs, shadow,
                   thread, gui, dbg_paused, gui_paused, chan, file,
                   last_key_input, keys, sent, gui_at>>

\* a step of the GUI thread; it writes the debugger state when it releases
\* the debugger mutex and the "controls" window sets its own paused flag
GuiStep ==
    /\ phase = "locks"
    /\ gui_at.path = "update"
    /\ IF gui_at.at > Len(GuiCode)
       THEN /\ gui_at' = [gui_at EXCEPT !.at = 1]
            /\ UNCHANGED <<mutex, dbg_paused, gui_paused>>
       ELSE LET s == GuiCode[gui_at.at]
            IN  \E o \in Exec("gui", s) :
                   /\ mutex' = o.mutex
                   /\ gui_at' = IF o.end # "ok"
                                THEN [gui_at EXCEPT !.path = o.end, !.at = 1]
                                ELSE [gui_at EXCEPT !.at = @ + 1]
                   /\ dbg_paused' = IF s = [op |-> "unlock", m |-> "debugger"]
                                    THEN gui_paused ELSE dbg_paused
                   /\ IF s.op = "local"
                      THEN gui_paused' \in BOOLEAN
                      ELSE gui_paused' = gui_paused
    /\ UNCHANGED <<chip8, overflow_checks, phase, last, failed, errs, shadow,
                   thread, gui, chan, file, last_key_input, keys, sent, sim_at>>

\* both threads are scheduled, and a thread waiting for a mutex gets it at
\* some time when it is free
LockSpec ==
    /\ InitLocks
    /\ [][SimStep \/ GuiStep]_vars
    /\ SF_vars(SimStep)
    /\ SF_vars(GuiStep)

\* ---------------------------------------------------------------- claims

IsTick == last.op = "tick" /\ last.fetched # {}
IsRet == IsTick /\ last.b1 \div 16 = 0 /\ last.b2 = 238
IsCall == IsTick /\ last.b1 \div 16 = 2

\* C1: a RET executed while no CALL is outstanding returns EmptyStackError: it
\* does not succeed (jumping to a stack entry no CALL wrote), does not wrap the
\* stack pointer to 255 and does not abort the thread.
C1_RetWithoutCallIsEmptyStack ==
    /\ (IsRet /\ last.depth0 = 0) => last.res = EmptyStackError
    /\ shadow = <<>> => chip8.sp = 0

\* C2: from an empty stack the first 16 nested CALLs succeed and the 17th
\* returns FullStackError; while CALLs are outstanding the stack pointer stays
\* within the 16 entries, and every index the stack is written at is one of
\* its 16.  (The CALLs meant are those of a stack that no RET has underflowed:
\* its pointer is not 255.)
C2_SixteenCallsThenFullStack ==
    /\ (IsCall /\ last.depth0 < STACK_SIZE /\ chip8.sp # U8 - 1) => last.res = Ok
    /\ (IsCall /\ last.depth0 = STACK_SIZE) => last.res = FullStackError
    /\ shadow # <<>> => chip8.sp <= STACK_SIZE
    /\ last.sacc \subseteq 0..(STACK_SIZE - 1)

\* C3: for N up to 16, N nested CALLs succeed, each RET that follows sets the
\* program counter to the address after its CALL, last in first out, and once
\* all have returned the stack pointer is where it was before the first CALL.
\* (Again on a stack that no RET has underflowed.)
C3_CallsAndReturnsNest ==
    /\ (IsCall /\ last.depth0 < STACK_SIZE /\ chip8.sp # U8 - 1) =>
          (last.res = Ok /\ Len(shadow) = last.depth0 + 1)
    /\ (IsRet /\ last.depth0 > 0) =>
          (last.res = Ok /\ chip8.pc = last.ret0 /\ Len(shadow) = last.depth0 - 1)
    /\ (IsRet /\ last.depth0 = 1 /\ last.res = Ok) => chip8.sp = 0

\* C4: load is all or nothing: a program longer than the 3584 bytes that fit
\* returns MemoryOverflowError and leaves the memory as it was, a program that
\* fits is written in full at 0x200.
C4_LoadAllOrNothing ==
    last.op = "load" =>
        IF last.arg > MEMORY_SIZE - MEMORY_OFFSET
        THEN last.res = MemoryOverflowError /\ chip8.memory = Chip8New.memory
        ELSE /\ last.res = Ok
             /\ \E bytes \in Roms :
                   /\ Len(bytes) = last.arg
                   /\ \A a \in 0..(MEMORY_SIZE - 1) :
                         chip8.memory[a] =
                            IF a >= MEMORY_OFFSET /\ a < MEMORY_OFFSET + Len(bytes)
                            THEN bytes[a - MEMORY_OFFSET + 1]
                            ELSE Chip8New.memory[a]

\* C5: every address an opcode indexes memory with is in 0..4095.
C5_OpcodeAccessInMemory == last.acc \subseteq 0..(MEMORY_SIZE - 1)

\* C6: a tick returns ProgramCounterError(pc) exactly when the program counter
\* is above 4094 as the tick starts, and then fetches nothing; otherwise it
\* fetches the two bytes at pc and pc + 1, both in memory.
C6_ProgramCounterChecked ==
    last.op = "tick" =>
        /\ (last.res.kind = "ProgramCounterError") <=> (last.pc0 > MEMORY_SIZE - 2)
        /\ last.res.kind = "ProgramCounterError" =>
              (last.res = ProgramCounterError(last.pc0) /\ last.fetched = {})
        /\ last.pc0 <= MEMORY_SIZE - 2 => last.fetched = {last.pc0, last.pc0 + 1}
        /\ last.fetched \subseteq 0..(MEMORY_SIZE - 1)

\* a skip at the last instruction slot (4094) left the program counter at 4098
\* and the next tick refused it
C6_Witness ==
    /\ last.op = "tick"
    /\ last.pc0 = MEMORY_SIZE + 2
    /\ last.res = ProgramCounterError(MEMORY_SIZE + 2)

\* C8: a tick that returns an error leaves the whole machine as it was, and
\* once a tick has returned an error every later tick returns that same error,
\* whatever frame and keypad_press calls come between.
C8_ErrorsChangeNothingAndStay ==
    [][ /\ (last'.op = "tick" /\ last'.res.kind \in ErrorKinds) => chip8' = chip8
        /\ (last'.op = "tick" /\ failed # Ok) =>
              (last'.res = failed /\ chip8' = chip8) ]_vars

\* a second tick has returned the stack error of the first, after a frame or a
\* key press came between
C8_Witness ==
    /\ last.op = "tick"
    /\ errs = MaxErrs
    /\ failed = FullStackError
    /\ last.res = failed

UndefinedWord(b1, b2) ==
    LET h == b1 \div 16
        n == b2 % 16
    IN  \/ h = 0 /\ b2 \notin {224, 238}
        \/ h \in {5, 9} /\ n # 0
        \/ h = 8 /\ n \notin {0, 1, 2, 3, 4, 5, 6, 7, 14}
        \/ h = 14 /\ b2 \notin {158, 161}
        \/ h = 15 /\ b2 \notin {7, 10, 21, 24, 30, 41, 51, 85, 101}

\* C7: a tick returns BadOperationError(b1, b2), with the two bytes it fetched,
\* exactly when the word is outside the table, and then the program counter
\* stays on the bad instruction.
C7_BadOperationExactlyOutsideTable ==
    (last.op = "tick" /\ last.fetched # {}) =>
        /\ (last.res.kind = "BadOperationError") <=> UndefinedWord(last.b1, last.b2)
        /\ last.res.kind = "BadOperationError" =>
              /\ last.res = BadOperationError(last.b1, last.b2)
              /\ last.b1 = chip8.memory[last.pc0]
              /\ last.b2 = chip8.memory[last.pc0 + 1]
              /\ chip8.pc = last.pc0

\* the word 8028 (8xyN with N = 8) was fetched and refused
C7_Witness ==
    /\ last.op = "tick"
    /\ last.res = BadOperationError(128, 40)
    /\ chip8.pc = MEMORY_OFFSET

\* C9: once a tick has returned a fatal error the host ticks that machine no
\* more; a Reset or Reload the user issues afterwards is taken up by the
\* simulation thread, and a Reset or Reload that was served has left a freshly
\* initialised machine holding the program, with no error pending, ready to
\* be ticked.
C9_FatalStopsUntilReset ==
    /\ failed # Ok => last.op = "tick" /\ last.res = failed /\ errs = 1
    /\ (sent.after_fatal /\ sent.msg \in {"Reset", "Reload"}) => sent.ok
    /\ (last.op \in {"reset", "reload"} /\ last.res = Ok) =>
          /\ chip8 = load(Chip8New, file).c
          /\ failed = Ok
          /\ thread = "running"

\* the index of the lowest set bit of a nonzero 16-bit mask
LowestSetBit(mask) ==
    CHOOSE i \in 0..15 :
        /\ (mask \div Pow2(i)) % 2 = 1
        /\ \A j \in 0..(i - 1) : (mask \div Pow2(j)) % 2 = 0

\* C11: keypad_press(mask) with the key-wait latch set and a nonzero mask clears
\* the latch and writes the index of the mask's lowest set bit to the register
\* the wait opcode recorded, changing nothing else; with a zero mask, or with
\* the latch not set, it changes nothing at all.
C11_KeypadPressLowestBit ==
    [][ last'.op = "keypad_press" =>
          IF chip8.keypad_waiting /\ last'.arg # 0
          THEN chip8' = [chip8 EXCEPT
                           !.keypad_waiting = FALSE,
                           !.registers[chip8.keypad_reg] = LowestSetBit(last'.arg)]
          ELSE chip8' = chip8 ]_vars

\* the wait of LD V4, K was resolved by the mask 0x28 (keys 3 and 5): V4 holds 3
C11_Witness ==
    /\ last.op = "keypad_press"
    /\ last.arg = 40
    /\ ~chip8.keypad_waiting
    /\ chip8.keypad_reg = 4
    /\ chip8.registers[4] = 3

\* a tick that executed DRW and returned
IsDraw(l) == l.op = "tick" /\ l.fetched # {} /\ l.b1 \div 16 = 13 /\ l.res = Ok

\* the sprite DRW reads has a set bit
SpriteHasBit(c, n) == \E r \in 0..(n - 1) : c.memory[c.ir + r] # 0

\* the pixels in which two frame buffers differ
Flipped(f, g) ==
    LET D == {i \in DOMAIN f : f[i] # g[i]}
        P == UNION {{<<8 * (i % 8) + k, i \div 8>> : k \in 0..7} : i \in D}
    IN  {p \in P : pixel(f, p[1], p[2]) # pixel(g, p[1], p[2])}

\* where the set bits of the sprite at I go for DRW Vx, Vy, n
SpritePixels(c, x, y, n) ==
    LET B == {rc \in (0..(n - 1)) \X (0..7) :
                 (c.memory[c.ir + rc[1]] \div Pow2(7 - rc[2])) % 2 = 1}
    IN  {<<(c.registers[x] + rc[2]) % SCREEN_WIDTH,
           (c.registers[y] + rc[1]) % SCREEN_HEIGHT>> : rc \in B}

\* two completed DRW Vx, Vy, n, one tick after the other, the second (the step
\* taken) reading the same I and the same values of Vx and Vy as the first
SameDrawTwice ==
    /\ IsDraw(last) /\ IsDraw(last')
    /\ last'.pc0 = last.pc0 + INSTRUCTION_SIZE
    /\ last'.b1 = last.b1 /\ last'.b2 = last.b2
    /\ last'.pre.ir = last.pre.ir
    /\ last'.pre.registers[last.b1 % 16] = last.pre.registers[last.b1 % 16]
    /\ last'.pre.registers[last.b2 \div 16] = last.pre.registers[last.b2 \div 16]

\* C12 as stated: two DRW Vx, Vy, n executed one after the other with the same
\* I, the same sprite bytes and the same values of Vx and Vy leave the frame
\* buffer as it was before the first, and the second sets VF to 1 whenever the
\* sprite has a set bit.
C12_DrawTwiceRestores ==
    [][ SameDrawTwice =>
          /\ chip8'.memory = chip8.memory
          /\ chip8'.frame_buffer = last.pre.frame_buffer
          /\ SpriteHasBit(chip8, last.b2 % 16) => chip8'.registers[REG_VF] = 1 ]_vars

\* C12 amended: two such draws leave the frame buffer as it was before the
\* first, and the second sets VF to 1 exactly when a set bit of the sprite lies
\* on a pixel that was clear before the first draw (the first draw set it, the
\* second clears it), and to 0 when every set bit lay on a set pixel.
C12_DrawTwiceRestoresAmended ==
    [][ SameDrawTwice =>
          /\ chip8'.memory = chip8.memory
          /\ chip8'.frame_buffer = last.pre.frame_buffer
          /\ chip8'.registers[REG_VF] =
                IF \E q \in SpritePixels(chip8, last.b1 % 16, last.b2 \div 16,
                                         last.b2 % 16) :
                      ~pixel(last.pre.frame_buffer, q[1], q[2])
                THEN 1 ELSE 0 ]_vars

\* the top row of the glyph "F" drawn twice at (0, 0) over the top row of the
\* glyph "0": the first draw cleared the four pixels and reported a collision,
\* the second has set them again and reports none
C12_Witness ==
    /\ IsDraw(last)
    /\ last.pc0 = MEMORY_OFFSET + 12
    /\ last.b1 = 208 /\ last.b2 = 17
    /\ last.pre.ir = 75
    /\ last.pre.registers[0] = 0 /\ last.pre.registers[1] = 0
    /\ last.pre.registers[REG_VF] = 1
    /\ last.pre.frame_buffer[0] = 0
    /\ chip8.frame_buffer[0] = 240
    /\ chip8.registers[REG_VF] = 0

\* C13: DRW Vx, Vy, n flips exactly the pixels ((Vx + c) mod 64, (Vy + r) mod 32)
\* of the set sprite bits (row r, column c), for every Vx and Vy, and the frame
\* buffer bytes it touches all have an index in 0..255.
C13_DrawWrapsInBounds ==
    [][ /\ last'.res # Panic("frame buffer index")
        /\ IsDraw(last') =>
          /\ Flipped(chip8.frame_buffer, chip8'.frame_buffer)
               = SpritePixels(chip8, last'.b1 % 16, last'.b2 \div 16, last'.b2 % 16)
          /\ DOMAIN chip8'.frame_buffer = 0..((SCREEN_WIDTH * SCREEN_HEIGHT) \div 8 - 1)
        ]_vars

\* a sprite drawn at x = 60 changed both the last and the first byte of row 3
C13_Witness ==
    /\ IsDraw(last)
    /\ last.pre.registers[last.b1 % 16] = 60
    /\ last.pre.registers[last.b2 \div 16] = 0
    /\ chip8.frame_buffer[24] # last.pre.frame_buffer[24]
    /\ chip8.frame_buffer[31] # last.pre.frame_buffer[31]

\* C14: after DRW, VF is 1 if a pixel that was set before the draw is clear
\* after it and 0 if none is, whatever VF held before; and display_changed is
\* true, also after a draw of no rows or of a sprite with no set bit.
C14_DrawCollisionFlag ==
    [][ IsDraw(last') =>
          /\ chip8'.registers[REG_VF] =
                IF \E i \in DOMAIN chip8.frame_buffer :
                      BitAnd(chip8.frame_buffer[i],
                             (U8 - 1) - chip8'.frame_buffer[i]) # 0
                THEN 1 ELSE 0
          /\ chip8'.display_changed ]_vars

\* DRW VF, V1, 0 with VF = 60: no rows drawn, VF is 0 and the display is flagged
C14_Witness ==
    /\ IsDraw(last)
    /\ last.b1 = 223 /\ last.b2 = 16
    /\ last.pre.registers[REG_VF] = 60
    /\ chip8.registers[REG_VF] = 0
    /\ chip8.frame_buffer = last.pre.frame_buffer
    /\ chip8.display_changed

\* C15: every frame() leaves display_changed false, and nothing but frame()
\* takes it from true to false: no tick and no keypad_press does.
C15_DisplayChangedClearedByFrame ==
    [][ /\ last'.op = "frame" => ~chip8'.display_changed
        /\ (chip8.display_changed /\ ~chip8'.display_changed) =>
              last'.op = "frame" ]_vars

\* the draw at 0x20A is still flagged after the keypad_press that resolved the
\* wait of LD V4, K
C15_Witness ==
    /\ chip8.display_changed
    /\ chip8.pc = MEMORY_OFFSET + 12
    /\ last.op = "keypad_press"
    /\ last.arg = 40
    /\ ~chip8.keypad_waiting
    /\ chip8.registers[4] = 3

\* C16: frame() takes 1 from dt if dt > 0 and leaves it 0 otherwise, the same
\* for st; neither timer ever leaves 0..255; and after frame() sound_playing is
\* (st > 0) of the decremented st.
C16_FrameDecrementsWithFloor ==
    [][ /\ chip8'.dt \in 0..(U8 - 1)
        /\ chip8'.st \in 0..(U8 - 1)
        /\ last'.op = "frame" =>
              /\ chip8'.dt = IF chip8.dt > 0 THEN chip8.dt - 1 ELSE 0
              /\ chip8'.st = IF chip8.st > 0 THEN chip8.st - 1 ELSE 0
              /\ chip8'.sound_playing = (chip8'.st > 0) ]_vars

\* both timers, set to 3 at 0x204 and 0x206, have been brought to 0 by frames
\* and the sound is off
C16_Witness ==
    /\ last.op = "frame"
    /\ chip8.pc = MEMORY_OFFSET + 8
    /\ chip8.registers[3] = 3
    /\ chip8.dt = 0
    /\ chip8.st = 0
    /\ ~chip8.sound_playing

\* C17: frame() changes nothing but dt, st, display_changed and sound_playing;
\* tick() changes dt only by executing Fx15 and st only by executing Fx18, and
\* never changes sound_playing.
C17_FrameAndTickIndependent ==
    [][ /\ last'.op = "frame" =>
              chip8' = [chip8 EXCEPT !.dt = chip8'.dt, !.st = chip8'.st,
                                     !.display_changed = chip8'.display_changed,
                                     !.sound_playing = chip8'.sound_playing]
        /\ last'.op = "tick" =>
              /\ chip8'.dt # chip8.dt =>
                    (last'.fetched # {} /\ last'.b1 \div 16 = 15 /\ last'.b2 = 21)
              /\ chip8'.st # chip8.st =>
                    (last'.fetched # {} /\ last'.b1 \div 16 = 15 /\ last'.b2 = 24)
              /\ chip8'.sound_playing = chip8.sound_playing ]_vars

\* LD ST, V3 has set the sound timer to 3 and the sound is still off
C17_Witness ==
    /\ last.op = "tick"
    /\ last.b1 = 243 /\ last.b2 = 24
    /\ last.res = Ok
    /\ chip8.st = 3
    /\ ~chip8.sound_playing

\* a tick that executed the instruction 8xyN and returned
IsAlu(l, n) ==
    l.op = "tick" /\ l.fetched # {} /\ l.b1 \div 16 = 8 /\ l.b2 % 16 = n /\ l.res = Ok

\* C18 as stated: after 8xy4, for every x and y (x = F and y = F too) and all
\* operand values, Vx is (old Vx + old Vy) mod 256 and VF is 1 if
\* old Vx + old Vy >= 256 and 0 if not.
C18_AddRegCarry ==
    [][ IsAlu(last', 4) =>
          LET sum == chip8.registers[last'.b1 % 16] + chip8.registers[last'.b2 \div 16]
          IN  /\ chip8'.registers[last'.b1 % 16] = sum % U8
              /\ chip8'.registers[REG_VF] = IF sum >= U8 THEN 1 ELSE 0 ]_vars

\* C18 amended: after 8xy4, for every x and y and all operand values, VF is 1
\* if old Vx + old Vy >= 256 and 0 if not; and Vx is (old Vx + old Vy) mod 256
\* for every x but F, where the flag overwrites the sum.
C18_AddRegCarryAmended ==
    [][ IsAlu(last', 4) =>
          LET sum == chip8.registers[last'.b1 % 16] + chip8.registers[last'.b2 \div 16]
          IN  /\ chip8'.registers[REG_VF] = IF sum >= U8 THEN 1 ELSE 0
              /\ last'.b1 % 16 # REG_VF =>
                    chip8'.registers[last'.b1 % 16] = sum % U8 ]_vars

\* ADD VF, V1 with VF = 200 and V1 = 1: the sum 201 is lost, VF holds the flag 0
C18_Witness ==
    /\ IsAlu(last, 4)
    /\ last.b1 % 16 = REG_VF
    /\ last.b2 \div 16 = 1
    /\ last.pre.registers[REG_VF] = 200
    /\ last.pre.registers[1] = 1
    /\ chip8.registers[REG_VF] = 0

\* C19 as stated: 8xy5 sets Vx to (old Vx - old Vy) mod 256 and VF to 1 if
\* old Vx >= old Vy, else 0; 8xy7 sets Vx to (old Vy - old Vx) mod 256 and VF
\* to 1 if old Vy >= old Vx, else 0; equal operands give 0 with VF = 1.
C19_SubNoBorrowFlag ==
    [][ LET vx == chip8.registers[last'.b1 % 16]
            vy == chip8.registers[last'.b2 \div 16]
        IN  /\ IsAlu(last', 5) =>
                  /\ chip8'.registers[last'.b1 % 16] = (vx - vy) % U8
                  /\ chip8'.registers[REG_VF] = IF vx >= vy THEN 1 ELSE 0
            /\ IsAlu(last', 7) =>
                  /\ chip8'.registers[last'.b1 % 16] = (vy - vx) % U8
                  /\ chip8'.registers[REG_VF] = IF vy >= vx THEN 1 ELSE 0 ]_vars

\* C19 amended: 8xy5 sets VF to 1 if old Vx >= old Vy, else 0, and 8xy7 sets VF
\* to 1 if old Vy >= old Vx, else 0, for every x and y; Vx is the difference
\* mod 256 ((old Vx - old Vy) for 8xy5, (old Vy - old Vx) for 8xy7) for every x
\* but F, where the flag overwrites the difference.
C19_SubNoBorrowFlagAmended ==
    [][ LET vx == chip8.registers[last'.b1 % 16]
            vy == chip8.registers[last'.b2 \div 16]
        IN  /\ IsAlu(last', 5) =>
                  /\ chip8'.registers[REG_VF] = IF vx >= vy THEN 1 ELSE 0
                  /\ last'.b1 % 16 # REG_VF =>
                        chip8'.registers[last'.b1 % 16] = (vx - vy) % U8
            /\ IsAlu(last', 7) =>
                  /\ chip8'.registers[REG_VF] = IF vy >= vx THEN 1 ELSE 0
                  /\ last'.b1 % 16 # REG_VF =>
                        chip8'.registers[last'.b1 % 16] = (vy - vx) % U8 ]_vars

\* SUB V0, V1 with V0 = V1 = 128: the difference is 0 and VF is 1
C19_Witness ==
    /\ IsAlu(last, 5)
    /\ last.b1 % 16 = 0
    /\ last.b2 \div 16 = 1
    /\ last.pre.registers[0] = 128
    /\ last.pre.registers[1] = 128
    /\ chip8.registers[0] = 0
    /\ chip8.registers[REG_VF] = 1

\* C20 as stated: 8xy6 sets Vx to old Vx >> 1 and VF to bit 0 of old Vx; 8xyE
\* sets Vx to (old Vx << 1) mod 256 and VF to bit 7 of old Vx.
C20_ShiftFlag ==
    [][ LET vx == chip8.registers[last'.b1 % 16]
        IN  /\ IsAlu(last', 6) =>
                  /\ chip8'.registers[last'.b1 % 16] = vx \div 2
                  /\ chip8'.registers[REG_VF] = vx % 2
            /\ IsAlu(last', 14) =>
                  /\ chip8'.registers[last'.b1 % 16] = (vx * 2) % U8
                  /\ chip8'.registers[REG_VF] = vx \div 128 ]_vars

\* C20 amended: 8xy6 sets VF to bit 0 of old Vx and 8xyE sets VF to bit 7 of
\* old Vx, for every x; Vx is old Vx >> 1 for 8xy6 and (old Vx << 1) mod 256
\* for 8xyE for every x but F, where the flag overwrites the shifted value.
C20_ShiftFlagAmended ==
    [][ LET vx == chip8.registers[last'.b1 % 16]
        IN  /\ IsAlu(last', 6) =>
                  /\ chip8'.registers[REG_VF] = vx % 2
                  /\ last'.b1 % 16 # REG_VF =>
                        chip8'.registers[last'.b1 % 16] = vx \div 2
            /\ IsAlu(last', 14) =>
                  /\ chip8'.registers[REG_VF] = vx \div 128
                  /\ last'.b1 % 16 # REG_VF =>
                        chip8'.registers[last'.b1 % 16] = (vx * 2) % U8 ]_vars

\* SHL V0 with V0 = 200: V0 is 144 and VF is 1, the bit shifted out
C20_Witness ==
    /\ IsAlu(last, 14)
    /\ last.b1 % 16 = 0
    /\ last.pre.registers[0] = 200
    /\ chip8.registers[0] = 144
    /\ chip8.registers[REG_VF] = 1

\* C21: a completed Fx55 writes V0..Vx, Vx included, to memory[I..I+x] and
\* a completed Fx65 reads V0..Vx, Vx included, from memory[I..I+x]; neither
\* changes I, nor anything but the bytes or registers copied and the PC.
C21_CopyRegistersInclusive ==
    [][ (/\ last'.op = "tick" /\ last'.pc0 = chip8.pc /\ last'.res = Ok
         /\ last'.b1 \div 16 = 15 /\ last'.b2 \in {85, 101}) =>
           LET x == last'.b1 % 16
               I == chip8.ir
           IN  /\ chip8'.ir = I
               /\ chip8'.pc = chip8.pc + INSTRUCTION_SIZE
               /\ last'.b2 = 85 =>
                    /\ \A a \in I..(I + x) : chip8'.memory[a] = chip8.registers[a - I]
                    /\ \A a \in DOMAIN chip8.memory \ (I..(I + x)) :
                          chip8'.memory[a] = chip8.memory[a]
                    /\ chip8' = [chip8 EXCEPT !.memory = chip8'.memory,
                                              !.pc = chip8'.pc]
               /\ last'.b2 = 101 =>
                    /\ \A r \in 0..x : chip8'.registers[r] = chip8.memory[I + r]
                    /\ \A r \in (x + 1)..(REGISTER_COUNT - 1) :
                          chip8'.registers[r] = chip8.registers[r]
                    /\ chip8' = [chip8 EXCEPT !.registers = chip8'.registers,
                                              !.pc = chip8'.pc] ]_vars

\* V0..V2 were stored at 0x300 and the byte after them was left alone; then
\* V0..V1 were read from the program's first bytes and V2 was left alone
C21_Witness ==
    /\ last.op = "tick" /\ last.res = Ok /\ last.b1 = 241 /\ last.b2 = 101
    /\ chip8.ir = 512
    /\ chip8.memory[768] = 17 /\ chip8.memory[769] = 34 /\ chip8.memory[770] = 51
    /\ chip8.memory[771] = 0
    /\ chip8.registers[0] = 96 /\ chip8.registers[1] = 17 /\ chip8.registers[2] = 51

\* C23: a completed Fx33 stores the hundreds, tens and ones digits of Vx at
\* memory[I], memory[I+1], memory[I+2], whatever byte Vx holds: 100 * h +
\* 10 * t + o is Vx, each digit is 0..9, and nothing but those three bytes
\* and the PC changes.
C23_BcdDigits ==
    [][ (/\ last'.op = "tick" /\ last'.pc0 = chip8.pc /\ last'.res = Ok
         /\ last'.b1 \div 16 = 15 /\ last'.b2 = 51) =>
           LET v == chip8.registers[last'.b1 % 16]
               I == chip8.ir
               h == chip8'.memory[I]
               t == chip8'.memory[I + 1]
               o == chip8'.memory[I + 2]
           IN  /\ h \in 0..9 /\ t \in 0..9 /\ o \in 0..9
               /\ 100 * h + 10 * t + o = v
               /\ chip8' = [chip8 EXCEPT !.memory = chip8'.memory,
                                         !.pc = chip8.pc + INSTRUCTION_SIZE]
               /\ \A a \in DOMAIN chip8.memory \ (I..(I + 2)) :
                     chip8'.memory[a] = chip8.memory[a] ]_vars

\* Vx = 123 was stored as 1, 2, 3
C23_Witness ==
    /\ last.op = "tick" /\ last.res = Ok /\ last.b1 = 240 /\ last.b2 = 51
    /\ chip8.registers[0] = 123 /\ chip8.ir = 768
    /\ chip8.memory[768] = 1 /\ chip8.memory[769] = 2 /\ chip8.memory[770] = 3

\* C22: with Vx in 0..F and any key mask, Ex9E skips the next instruction
\* (PC + 4) exactly when bit Vx of the mask is set and ExA1 exactly when it is
\* clear, otherwise PC + 2; neither changes anything but the PC.
C22_SkipOnKeyBit ==
    [][ (/\ last'.op = "tick" /\ last'.pc0 = chip8.pc /\ last'.fetched # {}
         /\ last'.b1 \div 16 = 14 /\ last'.b2 \in {158, 161}
         /\ chip8.registers[last'.b1 % 16] <= 15) =>
           LET v == chip8.registers[last'.b1 % 16]
               down == (last'.arg \div Pow2(v)) % 2 = 1
               skip == IF last'.b2 = 158 THEN down ELSE ~down
           IN  /\ last'.res = Ok
               /\ chip8' = [chip8 EXCEPT !.pc = chip8.pc + (IF skip THEN 4 ELSE 2)] ]_vars

\* SKP V0 with V0 = 5 and keys 3 and 5 down has skipped
C22_Witness ==
    /\ last.op = "tick" /\ last.res = Ok /\ last.b1 = 224 /\ last.b2 = 158
    /\ last.arg = 40 /\ chip8.registers[0] = 5
    /\ last.pc0 = 514 /\ chip8.pc = 518

\* C24: Cxkk leaves in Vx a byte with no bit set outside kk (so kk = 0 gives
\* 0), takes exactly one value from the random source and changes nothing
\* else but the PC; a tick of any other word takes none, so the source's
\* position, and with it every later random byte, is a function of the
\* program and its inputs.
C24_RndMaskedOnlySource ==
    [][ (last'.op = "tick" /\ last'.pc0 = chip8.pc /\ last'.fetched # {}) =>
           IF last'.b1 \div 16 = 12
           THEN LET x == last'.b1 % 16
                    kk == last'.b2
                    v == chip8'.registers[x]
                IN  /\ last'.res = Ok
                    /\ v \in 0..(U8 - 1)
                    /\ \A i \in 0..7 :
                          (v \div Pow2(i)) % 2 = 1 => (kk \div Pow2(i)) % 2 = 1
                    /\ chip8' = [chip8 EXCEPT !.registers[x] = v,
                                              !.rng = chip8.rng + 1,
                                              !.pc = chip8.pc + INSTRUCTION_SIZE]
           ELSE chip8'.rng = chip8.rng ]_vars

\* RND V0, 0x0F has drawn its one value and left 0x0A
C24_Witness ==
    /\ last.op = "tick" /\ last.res = Ok /\ last.b1 = 192 /\ last.b2 = 15
    /\ chip8.registers[0] = 10 /\ chip8.rng = 1 /\ chip8.pc = 514

\* C25: 6xkk sets Vx to kk and 7xkk sets Vx to (Vx + kk) mod 256, and neither
\* changes any other register (no flag) or anything but the PC; the program
\* 6A 0A 7A 05 on a fresh machine leaves, after two ticks, VA = 15, PC = 0x204
\* and every other register, VF included, 0.
C25_LoadAddImmediate ==
    [][ (last'.op = "tick" /\ last'.pc0 = chip8.pc /\ last'.fetched # {}
         /\ last'.b1 \div 16 \in {6, 7}) =>
           LET x == last'.b1 % 16
               kk == last'.b2
               new == IF last'.b1 \div 16 = 6 THEN kk
                      ELSE (chip8.registers[x] + kk) % 256
           IN  /\ last'.res = Ok
               /\ chip8' = [chip8 EXCEPT !.registers[x] = new,
                                         !.pc = chip8.pc + INSTRUCTION_SIZE]
               /\ (/\ chip8.pc = 514 /\ last.pc0 = 512 /\ last.op = "tick"
                   /\ chip8.memory[512] = 106 /\ chip8.memory[513] = 10
                   /\ chip8.memory[514] = 122 /\ chip8.memory[515] = 5) =>
                     /\ chip8'.pc = 516
                     /\ chip8'.registers =
                           [r \in 0..(REGISTER_COUNT - 1) |-> IF r = 10 THEN 15 ELSE 0] ]_vars

\* 6A 0A 7A 05 has run: VA = 15, VF = 0, PC = 0x204
C25_Witness ==
    /\ last.op = "tick" /\ last.res = Ok /\ last.b1 = 122 /\ last.b2 = 5
    /\ last.pc0 = 514 /\ chip8.memory[513] = 10
    /\ chip8.registers[10] = 15 /\ chip8.registers[15] = 0 /\ chip8.pc = 516

\* C26: a tick of 00E0 leaves every frame buffer byte zero and the PC two
\* further, at 0x202 for the program that is 00 E0 alone, whatever the frame
\* buffer held before (all 0xFF included); registers and memory are untouched.
C26_ClsZeroesFrameBuffer ==
    [][ (last'.op = "tick" /\ last'.pc0 = chip8.pc /\ last'.fetched # {}
         /\ last'.b1 = 0 /\ last'.b2 = 224) =>
           /\ last'.res = Ok
           /\ \A i \in DOMAIN chip8'.frame_buffer : chip8'.frame_buffer[i] = 0
           /\ DOMAIN chip8'.frame_buffer = DOMAIN chip8.frame_buffer
           /\ chip8'.pc = chip8.pc + INSTRUCTION_SIZE
           /\ chip8.pc = MEMORY_OFFSET => chip8'.pc = 514
           /\ chip8'.registers = chip8.registers
           /\ chip8'.memory = chip8.memory ]_vars

\* the frame buffer was all 0xFF before the tick of 00E0 and is all 0 after
C26_Witness ==
    /\ last.op = "tick" /\ last.res = Ok /\ last.b1 = 0 /\ last.b2 = 224
    /\ \A i \in DOMAIN last.pre.frame_buffer : last.pre.frame_buffer[i] = 255
    /\ \A i \in DOMAIN chip8.frame_buffer : chip8.frame_buffer[i] = 0
    /\ chip8.pc = 514

\* the keys down in the poll now and not down in the poll before
DownEdges(before, now) == BitAnd(now, (U16 - 1) - before)

\* C27: an unpaused turn of the simulation loop acts as if keypad_press had
\* been given exactly the keys that are down in this poll and were not down in
\* the one before, and had not been called when there is none; so a pending
\* key wait ends in a turn only if a key went down in it.
C27_HostPassesKeyDownEdges ==
    [][ (/\ phase = "host" /\ thread = "running" /\ ~dbg_paused
         /\ last'.op = "tick" /\ (chip8' # chip8 \/ last' # last)) =>
           LET down == DownEdges(last_key_input, keys)
           IN  /\ \E time_passed \in BOOLEAN :
                     LET c1 == IF time_passed THEN frame(chip8) ELSE chip8
                         c2 == IF down > 0 THEN keypad_press(c1, down) ELSE c1
                     IN  \E rnd \in TickRnds(c2) : chip8' = tick(c2, keys, rnd).c
               /\ (chip8.keypad_waiting /\ ~chip8'.keypad_waiting) => down > 0 ]_vars

\* C29: after a tick that has changed the frame buffer, display_changed is
\* true.
C29_FrameBufferChangeSetsFlag ==
    [][ (last'.op = "tick" /\ chip8'.frame_buffer # chip8.frame_buffer) =>
           chip8'.display_changed ]_vars

\* the opcode function a translation names, applied to the machine c
NamedOp(t, c, key_input, rnd) ==
    LET a == t.args
    IN  CASE t.op = "CLS" -> op_cls(c)
          [] t.op = "RET" -> op_ret(c)
          [] t.op = "JP nnn" -> op_jp(c, a[1])
          [] t.op = "CALL nnn" -> op_call(c, a[1])
          [] t.op = "SE Vx, kk" -> op_se(c, a[1], a[2])
          [] t.op = "SNE Vx, kk" -> op_sne(c, a[1], a[2])
          [] t.op = "SE Vx, Vy" -> op_se_reg(c, a[1], a[2])
          [] t.op = "LD Vx, kk" -> op_ld(c, a[1], a[2])
          [] t.op = "ADD Vx, kk" -> op_add(c, a[1], a[2])
          [] t.op = "LD Vx, Vy" -> op_ld_reg(c, a[1], a[2])
          [] t.op = "OR Vx, Vy" -> op_or(c, a[1], a[2])
          [] t.op = "AND Vx, Vy" -> op_and(c, a[1], a[2])
          [] t.op = "XOR Vx, Vy" -> op_xor(c, a[1], a[2])
          [] t.op = "ADD Vx, Vy" -> op_add_reg(c, a[1], a[2])
          [] t.op = "SUB Vx, Vy" -> op_sub_reg(c, a[1], a[2])
          [] t.op = "SHR Vx, <Vy>" -> op_shr(c, a[1])
          [] t.op = "SUBN Vx, Vy" -> op_subn_reg(c, a[1], a[2])
          [] t.op = "SHL Vx, <Vy>" -> op_shl(c, a[1])
          [] t.op = "SNE Vx, Vy" -> op_sne_reg(c, a[1], a[2])
          [] t.op = "LD I, nnn" -> op_ld_i(c, a[1])
          [] t.op = "JP V0, nnn" -> op_jp_v0(c, a[1])
          [] t.op = "RND Vx, kk" -> op_rnd(c, a[1], a[2], rnd)
          [] t.op = "DRW Vx, Vy, n" -> op_drw(c, a[1], a[2], a[3])
          [] t.op = "SKP Vx" -> op_skp(c, a[1], key_input)
          [] t.op = "SKNP Vx" -> op_sknp(c, a[1], key_input)
          [] t.op = "LD Vx, DT" -> op_ld_vx_dt(c, a[1])
          [] t.op = "LD Vx, K" -> op_key_wait(c, a[1])
          [] t.op = "LD DT, Vx" -> op_ld_dt_vx(c, a[1])
          [] t.op = "LD ST, Vx" -> op_ld_st_vx(c, a[1])
          [] t.op = "ADD I, Vx" -> op_add_i_vx(c, a[1])
          [] t.op = "LD F, Vx" -> op_ld_f_vx(c, a[1])
          [] t.op = "LD B, Vx" -> op_ld_b_vx(c, a[1])
          [] t.op = "LD [I], Vx" -> op_ld_i_vx(c, a[1])
          [] t.op = "LD Vx, [I]" -> op_ld_vx_i(c, a[1])
          [] OTHER -> Fail(c, BadOperationError(a[1], a[2]), {})

\* C28: for every word a tick fetches, translate gives XXXX exactly when the
\* tick returns BadOperationError, and otherwise names the opcode function,
\* with its operands, that the engine runs on the word.
C28_TranslateAgreesWithRun ==
    [][ (last'.op = "tick" /\ last'.pc0 = chip8.pc /\ last'.fetched # {}) =>
           LET t == translate(last'.b1, last'.b2)
           IN  /\ (t.op = "XXXX") <=> (last'.res.kind = "BadOperationError")
               /\ run(chip8, last'.b1, last'.b2, 0, 0) = NamedOp(t, chip8, 0, 0) ]_vars

\* the step a thread is at, the mutexes it holds, and the mutex it waits for
SimAt ==
    IF sim_at.at <= Len(SimCode(sim_at.path))
    THEN SimCode(sim_at.path)[sim_at.at] ELSE [op |-> "local", m |-> "loop"]

GuiAt ==
    IF gui_at.path = "update" /\ gui_at.at <= Len(GuiCode)
    THEN GuiCode[gui_at.at] ELSE [op |-> "local", m |-> "loop"]

HeldBy(t) == {m \in DOMAIN mutex : mutex[m].owner = t}

WaitsFor(s, t) == s.op = "lock" /\ mutex[s.m].owner = t

\* C30, the part that holds in every state: there are three mutexes; a thread
\* at an access of the machine holds the machine's mutex; the GUI thread holds
\* no mutex when it acquires one, and the simulation thread holds none or the
\* machine's alone, and then acquires the debugger's or the keys'; no thread
\* waits for a mutex it holds itself, and the two never wait for each other.
C30_LockDiscipline ==
    /\ DOMAIN mutex = {"chip8", "debugger", "keys"}
    /\ SimAt.op = "machine" => mutex["chip8"].owner = "sim"
    /\ GuiAt.op = "machine" => mutex["chip8"].owner = "gui"
    /\ GuiAt.op = "lock" => HeldBy("gui") = {}
    /\ SimAt.op = "lock" =>
          \/ HeldBy("sim") = {}
          \/ HeldBy("sim") = {"chip8"} /\ SimAt.m \in {"debugger", "keys"}
    /\ ~WaitsFor(SimAt, "sim") /\ ~WaitsFor(GuiAt, "gui")
    /\ ~(WaitsFor(SimAt, "gui") /\ WaitsFor(GuiAt, "sim"))
    /\ sim_at.path \in {"exited", "panicked"} => HeldBy("sim") = {}
    /\ gui_at.path \in {"exited", "panicked"} => HeldBy("gui") = {}

\* C30: the lock discipline holds throughout, and a thread that waits for a
\* mutex does not wait forever.
C30_NoThreadBlocksForever ==
    /\ []C30_LockDiscipline
    /\ WaitsFor(SimAt, "gui") ~> ~WaitsFor(SimAt, "gui")
    /\ WaitsFor(GuiAt, "sim") ~> ~WaitsFor(GuiAt, "sim")

\* the simulation thread holds the machine's mutex and waits for the debugger
\* mutex, which the GUI thread holds
C30_Witness ==
    /\ HeldBy("sim") = {"chip8"}
    /\ SimAt = [op |-> "lock", m |-> "debugger"]
    /\ mutex["debugger"].owner = "gui"

====
